---------------------------- MODULE Spec2Model ----------------------------
(***************************************************************************)
(* Waits-for graph deadlock detector of buildscripts/gdb/mongo_lock.py.    *)
(*                                                                         *)
(* The module holds eight state machines over the same variables:          *)
(*   SpecGraph  any sequence of calls of the Graph class (add_node,        *)
(*              add_edge, remove_nodes_without_edge, detect_cycle,         *)
(*              to_graph, print);                                          *)
(*   SpecRepeat detect_cycle and to_graph of the Graph class called        *)
(*              repeatedly on one graph;                                   *)
(*   Spec       one pass of MongoDBWaitsForGraph.mongodb_waitsfor_graph,   *)
(*              thread by thread, over every outcome of the gdb            *)
(*              introspection calls;                                       *)
(*   SpecRing   the same pass over threads that wait for each other in a   *)
(*              ring;                                                      *)
(*   SpecShow   one pass of MongoDBShowLocks.mongodb_show_locks;           *)
(*   SpecSuites one call of divide_tests_into_suites of                    *)
(*              buildscripts/evergreen_generate_resmoke_tasks.py;          *)
(*   SpecRun    GenerateSubSuites.run of the same file in a task that is   *)
(*              restarted;                                                 *)
(*   SpecTimeout one call of calculate_timeout of the same file.           *)
(* Python strings are TLA+ strings, built as the format calls build them.  *)
(***************************************************************************)
EXTENDS Integers, Sequences, FiniteSets, TLC

VARIABLES
    nodes,          \* Graph.nodes: the dict, as its entries in insertion order
    call,           \* SpecGraph: the Graph method called last
    ret,            \* SpecGraph: what that call returned
    before,         \* SpecGraph: Graph.nodes as remove_nodes_without_edge found it
    pc,             \* Spec: the statement of mongodb_waitsfor_graph reached
    idx,            \* Spec: position in gdb.selected_inferior().threads()
    thread_dict,    \* Spec: get_threads_info's dict, entries in insertion order
    graph_file,     \* Spec: the argument of mongodb_waitsfor_graph
    cycle_nodes,    \* Spec: local cycle_nodes
    cycle_message,  \* Spec: local cycle_message
    printed,        \* the lines print() wrote, oldest first: in a pass since
                    \* its start, in SpecGraph during the last call
    file,           \* Spec: contents of graph_file on disk
    raised,         \* Spec: the exception that left mongodb_waitsfor_graph
    infos,          \* Spec: what get_threads_info met, thread by thread (history)
    log,            \* Spec: what get_locks met, thread by thread (history);
                    \* SpecRepeat: the calls made since the last add_edge
    facts,          \* SpecRing: what get_locks will meet, thread by thread
    tests_runtimes,       \* SpecSuites: argument of divide_tests_into_suites
    max_time_seconds,     \* SpecSuites: argument of divide_tests_into_suites
    max_suites,           \* SpecSuites: argument of divide_tests_into_suites
    max_tests_per_suite,  \* SpecSuites: argument of divide_tests_into_suites
    current_index,        \* SpecSuites, SpecRun: the class attribute Suite._current_index
    last_test_processed,  \* SpecSuites: local last_test_processed at the return
    suites,               \* SpecSuites: what divide_tests_into_suites returned
    task,                 \* SpecRun: the Evergreen task, as evg_api.task_by_id returns it
    generate,             \* SpecRun: what should_tasks_be_generated returned in this
                          \* execution, None as long as it has not returned
    calculated,           \* SpecRun: the executions in which run called calculate_suites
    written,              \* SpecRun: the executions in which run called write_file_dict
    avg_runtime,          \* SpecTimeout: argument of calculate_timeout
    scaling_factor,       \* SpecTimeout: argument of calculate_timeout
    timeout               \* SpecTimeout: what calculate_timeout returned

vars == <<nodes, call, ret, before, pc, idx, thread_dict, graph_file,
          cycle_nodes, cycle_message, printed, file, raised, infos, log, facts,
          tests_runtimes, max_time_seconds, max_suites, max_tests_per_suite,
          current_index, last_test_processed, suites,
          task, generate, calculated, written,
          avg_runtime, scaling_factor, timeout>>

graphVars == <<nodes, call, ret, before>>
\* The variables that only the other state machines of the module use.
suitesVars == <<tests_runtimes, max_time_seconds, max_suites,
                max_tests_per_suite, current_index, last_test_processed, suites>>
runVars == <<task, generate, calculated, written>>
timeoutVars == <<avg_runtime, scaling_factor, timeout>>
otherVars == <<facts, suitesVars, runVars, timeoutVars>>
passVars == <<pc, idx, thread_dict, graph_file, cycle_nodes, cycle_message,
              file, raised, infos, log, otherVars>>

-----------------------------------------------------------------------------
(* Bounds of the model.                                                    *)

\* SpecGraph: add_edge is not called once the graph holds this many edges.
MaxEdges == 4

\* Spec: the longest grantedList find_lock_manager_holders walks.
MaxGranted == 1

\* SpecRing: the largest number of threads that wait for each other in a ring.
MaxRing == 4

\* SpecSuites: the longest tests_runtimes given to divide_tests_into_suites.
MaxTests == 5

\* SpecSuites: the largest runtime of a test.
MaxRuntime == 2

\* SpecRun: the task is not restarted once its execution has this number.
MaxRestarts == 4

\* SpecRepeat: the number of calls of detect_cycle and to_graph made on a
\* graph before it is added to again.
MaxCalls == 3

-----------------------------------------------------------------------------
(* Python values.                                                          *)

\* Python's None. A value that is None, a list or a string is one of the
\* records None, PyList(s), PyStr(s); dict entries and node objects are records
\* as well, so each of them compares with None.
None == [none |-> TRUE]

IsNone(v) == v = None

PyList(s) == [list |-> s]

PyStr(s) == [str |-> s]

\* bool(v) of a value that is None or a list.
Truthy(v) == ~IsNone(v) /\ Len(v.list) > 0

\* Membership in a list (Python's "x in list").
InList(x, s) == \E i \in 1..Len(s) : s[i] = x

\* list.index(x): the first position holding x.
IndexOf(x, s) == CHOOSE i \in 1..Len(s) : s[i] = x /\ \A j \in 1..(i - 1) : s[j] # x

Range(s) == {s[i] : i \in 1..Len(s)}

HexDigit(d) == SubSeq("0123456789abcdef", d + 1, d + 1)

RECURSIVE HexStr(_)
\* format(n, "x") of a natural number.
HexStr(n) == IF n < 16 THEN HexDigit(n) ELSE HexStr(n \div 16) \o HexDigit(n % 16)

RECURSIVE DecStr(_)
\* format(n, "") of a natural number.
DecStr(n) == IF n < 10 THEN HexDigit(n) ELSE DecStr(n \div 10) \o HexDigit(n % 10)

\* The "0<w>" part of a format spec, for w up to 12: zeros on the left up to
\* width w, and s as it is when it is that long already.
ZeroPad(s, w) ==
    IF Len(s) >= w THEN s ELSE SubSeq("000000000000", 1, w - Len(s)) \o s

\* "{:012x}".format(n)
Hex012(n) == ZeroPad(HexStr(n), 12)

RECURSIVE Join(_, _)
\* sep.join(list)
Join(s, sep) ==
    IF Len(s) = 0 THEN ""
    ELSE IF Len(s) = 1 THEN s[1]
    ELSE s[1] \o sep \o Join(Tail(s), sep)

\* repr() of a string that holds no quote ' and no backslash.
PyRepr(s) == "'" \o s \o "'"

\* str() of a list of strings.
ListStr(s) == "[" \o Join([i \in 1..Len(s) |-> PyRepr(s[i])], ", ") \o "]"

-----------------------------------------------------------------------------
(* class Thread, class Lock.                                               *)

Thread(thread_id, lwpid, thread_name) ==
    [cls |-> "Thread", thread_id |-> thread_id, lwpid |-> lwpid, name |-> thread_name]

Lock(addr, resource) ==
    [cls |-> "Lock", addr |-> addr, resource |-> resource]

\* A plausible slip: the key is the number alone, the same for a thread and a
\* lock with the same number.
key_without_class(node) ==
    IF node.cls = "Thread"
    THEN "0x" \o Hex012(node.thread_id)
    ELSE "0x" \o Hex012(node.addr)

\* Thread.key / Lock.key
key(node) ==
    IF node.cls = "Thread"
    THEN "Thread 0x" \o Hex012(node.thread_id)
    ELSE "Lock 0x" \o Hex012(node.addr)

\* Thread.__str__ / Lock.__str__
str(node) ==
    IF node.cls = "Thread"
    THEN node.name \o " (Thread 0x" \o Hex012(node.thread_id)
             \o " (LWP " \o DecStr(node.lwpid) \o "))"
    ELSE "Lock 0x" \o Hex012(node.addr) \o " (" \o node.resource \o ")"

-----------------------------------------------------------------------------
(* class Graph. A graph g is the value of Graph.nodes: a sequence of       *)
(* entries [key, node, next_nodes], one per dict key, in insertion order.  *)

EmptyGraph == <<>>

Keys(g) == {g[i].key : i \in 1..Len(g)}

HasKey(g, k) == \E i \in 1..Len(g) : g[i].key = k

\* self.nodes[k]
Entry(g, k) == g[CHOOSE i \in 1..Len(g) : g[i].key = k]

\* A plausible slip: the test is the wrong way round.
is_empty_inverted(g) == Len(g) # 0

\* Graph.is_empty
is_empty(g) == Len(g) = 0

\* Graph.find_node
find_node(g, node) == IF HasKey(g, key(node)) THEN Entry(g, key(node)) ELSE None

\* A plausible slip: the last node registered under a key wins.
add_node_overwrites(g, node) ==
    IF HasKey(g, key(node))
    THEN [i \in 1..Len(g) |->
            IF g[i].key = key(node)
            THEN [key |-> key(node), node |-> node, next_nodes |-> <<>>]
            ELSE g[i]]
    ELSE Append(g, [key |-> key(node), node |-> node, next_nodes |-> <<>>])

\* A plausible slip: the node is registered without looking its key up.
add_node_unchecked(g, node) ==
    Append(g, [key |-> key(node), node |-> node, next_nodes |-> <<>>])

\* Graph.add_node
add_node(g, node) ==
    IF IsNone(find_node(g, node))
    THEN Append(g, [key |-> key(node), node |-> node, next_nodes |-> <<>>])
    ELSE g

\* A plausible slip: only the first key of each outgoing list is looked at.
find_from_node_first_key(g, from_node) ==
    LET hits == {i \in 1..Len(g) : Len(g[i].next_nodes) > 0
                                    /\ g[i].next_nodes[1] = key(from_node.node)}
    IN  IF hits = {} THEN None
        ELSE g[CHOOSE i \in hits : \A j \in hits : i <= j]

\* Graph.find_from_node: the first entry with an edge to from_node, or None.
find_from_node(g, from_node) ==
    LET hits == {i \in 1..Len(g) : InList(key(from_node.node), g[i].next_nodes)}
    IN  IF hits = {} THEN None
        ELSE g[CHOOSE i \in hits : \A j \in hits : i <= j]

\* A plausible slip: the incoming edges are forgotten.
KeepsNodeOutgoingOnly(g, node) == Len(node.next_nodes) > 0

\* The condition of remove_nodes_without_edge under which a node is kept.
KeepsNode(g, node) ==
    Len(node.next_nodes) > 0 \/ ~IsNone(find_from_node(g, node))

RECURSIVE FilterEntriesPrepending(_, _, _)
\* A plausible slip: a node that is kept is put in front of those kept so far.
FilterEntriesPrepending(g, i, temp_nodes) ==
    IF i > Len(g) THEN temp_nodes
    ELSE FilterEntriesPrepending(g, i + 1,
            IF KeepsNode(g, g[i]) THEN <<g[i]>> \o temp_nodes ELSE temp_nodes)

RECURSIVE FilterEntries(_, _, _)
\* The loop of remove_nodes_without_edge from position i on; g is self.nodes.
FilterEntries(g, i, temp_nodes) ==
    IF i > Len(g) THEN temp_nodes
    ELSE FilterEntries(g, i + 1,
            IF KeepsNode(g, g[i]) THEN Append(temp_nodes, g[i]) ELSE temp_nodes)

\* Graph.remove_nodes_without_edge
remove_nodes_without_edge(g) == FilterEntries(g, 1, <<>>)

\* A plausible slip: the scan for an existing entry is left out.
AppendEdgeAlways(g, from_key, to_key) ==
    [i \in 1..Len(g) |->
        IF g[i].key = from_key
        THEN [g[i] EXCEPT !.next_nodes = Append(@, to_key)]
        ELSE g[i]]

\* The last statements of add_edge: the scan for to_node's key and the append.
AppendEdge(g, from_key, to_key) ==
    IF InList(to_key, Entry(g, from_key).next_nodes)
    THEN g
    ELSE [i \in 1..Len(g) |->
            IF g[i].key = from_key
            THEN [g[i] EXCEPT !.next_nodes = Append(@, to_key)]
            ELSE g[i]]

\* A plausible slip: to_node is registered before from_node.
add_edge_to_first(g, from_node, to_node) ==
    LET g1 == add_node(g, to_node)
        g2 == add_node(g1, from_node)
    IN  AppendEdge(g2, key(from_node), key(to_node))

\* Graph.add_edge
add_edge(g, from_node, to_node) ==
    LET g1 == add_node(g, from_node)
        g2 == add_node(g1, to_node)
    IN  AppendEdge(g2, key(from_node), key(to_node))

\* A plausible slip: the whole path is returned, acyclic prefix included.
CyclePartWhole(nodes_in_cycle, node) == nodes_in_cycle

\* nodes_in_cycle[nodes_in_cycle.index(node):]
CyclePart(nodes_in_cycle, node) ==
    SubSeq(nodes_in_cycle, IndexOf(node, nodes_in_cycle), Len(nodes_in_cycle))

\* A plausible slip: the node is left on the path.
PopNothing(nodes_in_cycle) == nodes_in_cycle

\* nodes_in_cycle.pop(): the list as the call leaves it.
Pop(nodes_in_cycle) == SubSeq(nodes_in_cycle, 1, Len(nodes_in_cycle) - 1)

\* A plausible slip: the visited set is not consulted.
NotVisitedAlways(node, nodes_visited) == TRUE

\* "node not in nodes_visited". The set nodes_visited is held as the keys in
\* the order nodes_visited.add was called with them, which is once at the
\* start of every call of depth_first_search.
NotVisited(node, nodes_visited) == ~InList(node, nodes_visited)

\* The list objects of self.nodes when a method is called: object i is the
\* list self.nodes[g[i].key]['next_nodes']. The lists a call makes are given
\* the numbers that follow; a list is changed through its number, so that a
\* change shows in every name the list has.
ListObjects(g) == [i \in 1..Len(g) |-> g[i].next_nodes]

\* self.nodes with the outgoing lists as the list objects h hold them. The
\* methods that only read assign to no key of self.nodes, to no entry and to
\* no attribute of a node object: list objects are all they change.
SelfNodes(g, h) == [i \in 1..Len(g) |-> [g[i] EXCEPT !.next_nodes = h[i]]]

\* A plausible slip: the path is the outgoing list of the node the search
\* starts at, not a list of its own.
nodes_in_cycle_aliased(g, h, node_key) ==
    [h |-> h, ref |-> CHOOSE i \in 1..Len(g) : g[i].key = node_key]

\* "if nodes_in_cycle is None: nodes_in_cycle = []": a new, empty list object.
nodes_in_cycle_new(g, h, node_key) == [h |-> Append(h, <<>>), ref |-> Len(h) + 1]

RECURSIVE depth_first_search(_, _, _, _, _)
RECURSIVE DfsLoop(_, _, _, _, _, _)

\* The for loop of depth_first_search(node_key) from position i of next_nodes
\* on; nodes_in_cycle is the number of the list object of that name, and the
\* loop reads both lists as they are when it comes to them.
DfsLoop(g, h, node_key, i, nodes_visited, nodes_in_cycle) ==
    LET next_nodes == h[CHOOSE n \in 1..Len(g) : g[n].key = node_key] IN
    IF i > Len(next_nodes)
    THEN [ret |-> None,
          nodes_visited |-> nodes_visited,
          h |-> [h EXCEPT ![nodes_in_cycle] = Pop(@)]]
    ELSE LET node == next_nodes[i] IN
         IF InList(node, h[nodes_in_cycle])
         THEN [ret |-> PyList(CyclePart(h[nodes_in_cycle], node)),
               nodes_visited |-> nodes_visited,
               h |-> h]
         ELSE IF NotVisited(node, nodes_visited)
         THEN LET r == depth_first_search(g, h, node, nodes_visited,
                                          [ref |-> nodes_in_cycle]) IN
              IF Truthy(r.ret)
              THEN r
              ELSE DfsLoop(g, r.h, node_key, i + 1, r.nodes_visited, nodes_in_cycle)
         ELSE DfsLoop(g, h, node_key, i + 1, nodes_visited, nodes_in_cycle)

\* A plausible slip: node_key is not put on the path.
depth_first_search_off_path(g, h, node_key, nodes_visited, nodes_in_cycle) ==
    LET a == IF IsNone(nodes_in_cycle)
             THEN nodes_in_cycle_new(g, h, node_key)
             ELSE [h |-> h, ref |-> nodes_in_cycle.ref]
    IN  DfsLoop(g, a.h, node_key, 1, Append(nodes_visited, node_key), a.ref)

\* Graph.depth_first_search: the value returned, the set nodes_visited and the
\* list objects h as they are on return. The argument nodes_in_cycle is None
\* or [ref |-> the number of a list object].
depth_first_search(g, h, node_key, nodes_visited, nodes_in_cycle) ==
    LET a == IF IsNone(nodes_in_cycle)
             THEN nodes_in_cycle_new(g, h, node_key)
             ELSE [h |-> h, ref |-> nodes_in_cycle.ref]
    IN  DfsLoop(g, [a.h EXCEPT ![a.ref] = Append(@, node_key)], node_key, 1,
                Append(nodes_visited, node_key), a.ref)

RECURSIVE DetectLoopBackwards(_, _, _, _)
\* A plausible slip: the roots are taken from the node inserted last to the
\* one inserted first.
DetectLoopBackwards(g, h, i, nodes_visited) ==
    LET at == Len(g) + 1 - i IN
    IF i > Len(g) THEN [ret |-> None, nodes_visited |-> nodes_visited, h |-> h]
    ELSE IF NotVisited(g[at].key, nodes_visited)
         THEN LET r == depth_first_search(g, h, g[at].key, nodes_visited, None) IN
              IF Truthy(r.ret)
              THEN r
              ELSE DetectLoopBackwards(g, r.h, i + 1, r.nodes_visited)
         ELSE DetectLoopBackwards(g, h, i + 1, nodes_visited)

RECURSIVE DetectLoop(_, _, _, _)
\* The for loop of detect_cycle from position i of self.nodes on: the keys of
\* the cycle found (cycle_path) or None, and nodes_visited and the list
\* objects as the loop leaves them.
DetectLoop(g, h, i, nodes_visited) ==
    IF i > Len(g) THEN [ret |-> None, nodes_visited |-> nodes_visited, h |-> h]
    ELSE IF NotVisited(g[i].key, nodes_visited)
         THEN LET r == depth_first_search(g, h, g[i].key, nodes_visited, None) IN
              IF Truthy(r.ret)
              THEN r
              ELSE DetectLoop(g, r.h, i + 1, r.nodes_visited)
         ELSE DetectLoop(g, h, i + 1, nodes_visited)

\* cycle_path of detect_cycle: the list of the node keys of the cycle, or None.
cycle_path(g) == DetectLoop(g, ListObjects(g), 1, <<>>).ret

\* nodes_visited when detect_cycle returns: the keys depth_first_search was
\* called with, in the order of the calls.
detect_cycle_nodes_visited(g) == DetectLoop(g, ListObjects(g), 1, <<>>).nodes_visited

\* self.nodes as detect_cycle leaves it: the outgoing lists are read back from
\* the list objects at the return.
detect_cycle_self_nodes(g) == SelfNodes(g, DetectLoop(g, ListObjects(g), 1, <<>>).h)

\* A plausible slip: the keys of the cycle are returned, not the descriptions.
detect_cycle_keys(g) == IF Truthy(cycle_path(g)) THEN cycle_path(g) ELSE None

\* Graph.detect_cycle
detect_cycle(g) ==
    LET p == cycle_path(g) IN
    IF Truthy(p)
    THEN PyList([i \in 1..Len(p.list) |-> str(Entry(g, p.list[i]).node)])
    ELSE None

\* A plausible slip: the test "node_key in nodes" is left out.
to_graph_lines_no_membership(g, hl_nodes, message) ==
    LET legend == << "# Legend:",
                     "#    Thread 1 -> Lock 1 indicates Thread 1 is waiting on Lock 1",
                     "#    Lock 2 -> Thread 2 indicates Lock 2 is held by Thread 2" >>
        header == IF IsNone(message) THEN <<>> ELSE <<message.str>>
        EdgeLines(e) ==
            [j \in 1..Len(e.next_nodes) |->
                "    \"" \o e.key \o "\" -> \"" \o e.next_nodes[j] \o "\";"]
        RECURSIVE AllEdgeLines(_)
        AllEdgeLines(i) ==
            IF i > Len(g) THEN <<>> ELSE EdgeLines(g[i]) \o AllEdgeLines(i + 1)
        Color(k) ==
            IF Truthy(hl_nodes)
            THEN "color = red" ELSE ""
        LabelLines ==
            [i \in 1..Len(g) |->
                "    \"" \o g[i].key \o "\" [label=\"" \o str(g[i].node) \o "\" "
                    \o Color(g[i].key) \o "]"]
    IN  legend \o header \o <<"digraph \"mongod+lock-status\" {">>
            \o AllEdgeLines(1) \o LabelLines \o <<"}">>

\* The lines of Graph.to_graph before the join; nodes is the highlight
\* argument (None or a list), message the header argument (None or a string).
to_graph_lines(g, hl_nodes, message) ==
    LET legend == << "# Legend:",
                     "#    Thread 1 -> Lock 1 indicates Thread 1 is waiting on Lock 1",
                     "#    Lock 2 -> Thread 2 indicates Lock 2 is held by Thread 2" >>
        header == IF IsNone(message) THEN <<>> ELSE <<message.str>>
        EdgeLines(e) ==
            [j \in 1..Len(e.next_nodes) |->
                "    \"" \o e.key \o "\" -> \"" \o e.next_nodes[j] \o "\";"]
        RECURSIVE AllEdgeLines(_)
        AllEdgeLines(i) ==
            IF i > Len(g) THEN <<>> ELSE EdgeLines(g[i]) \o AllEdgeLines(i + 1)
        Color(k) ==
            IF Truthy(hl_nodes) /\ InList(k, hl_nodes.list)
            THEN "color = red" ELSE ""
        LabelLines ==
            [i \in 1..Len(g) |->
                "    \"" \o g[i].key \o "\" [label=\"" \o str(g[i].node) \o "\" "
                    \o Color(g[i].key) \o "]"]
    IN  legend \o header \o <<"digraph \"mongod+lock-status\" {">>
            \o AllEdgeLines(1) \o LabelLines \o <<"}">>

\* One call of Graph.to_graph: what it returns, "\n".join(sb), and self.nodes
\* as it leaves it. "sb = []" makes a new list object, every sb.append
\* changes that object, and the outgoing lists are read back from the list
\* objects at the return.
to_graph_call(g, hl_nodes, message) ==
    LET h0 == ListObjects(g)
        sb == Len(h0) + 1
        h == [Append(h0, <<>>) EXCEPT ![sb] = @ \o to_graph_lines(g, hl_nodes, message)]
    IN  [ret |-> Join(h[sb], "\n"), self_nodes |-> SelfNodes(g, h)]

\* Graph.to_graph: the text returned.
to_graph(g, hl_nodes, message) == to_graph_call(g, hl_nodes, message).ret

RECURSIVE PrintArrows(_, _)
\* The inner loop of Graph.print from position n of next_nodes on.
PrintArrows(next_nodes, n) ==
    IF n > Len(next_nodes) THEN <<>>
    ELSE <<" -> " \o next_nodes[n]>> \o PrintArrows(next_nodes, n + 1)

RECURSIVE PrintLoop(_, _)
\* The for loop of Graph.print from position i of self.nodes on.
PrintLoop(g, i) ==
    IF i > Len(g) THEN <<>>
    ELSE <<"Node " \o str(g[i].node)>> \o PrintArrows(g[i].next_nodes, 1)
            \o PrintLoop(g, i + 1)

\* Graph.print: the lines it writes with print(), a line for every node and
\* under it a line for every edge out of the node.
Graph_print(g) == PrintLoop(g, 1)

-----------------------------------------------------------------------------
(* SpecGraph: the Graph class under any sequence of calls.                 *)

\* The node objects the calls are made with: two threads and a lock, and for
\* thread 1 a second object with the same key (the placeholder that
\* find_mutex_holder builds for LWP 1).
GraphNodes ==
    { Thread(1, 11, "conn1"), Thread(2, 12, "conn2"), Thread(1, 1, "\"[unknown]\""),
      Lock(1, "Mutex") }

RECURSIVE SumLens(_, _)
SumLens(g, i) == IF i > Len(g) THEN 0 ELSE Len(g[i].next_nodes) + SumLens(g, i + 1)

\* The number of edges of g.
EdgeCount(g) == SumLens(g, 1)

\* No call of divide_tests_into_suites is made or pending.
\* No task runs GenerateSubSuites.run.
RunIdle ==
    /\ task = [execution |-> 0, is_success |-> <<FALSE>>]
    /\ generate = None /\ calculated = <<>> /\ written = <<>>

\* No call of calculate_timeout is made or pending.
TimeoutIdle == avg_runtime = 0 /\ scaling_factor = 1 /\ timeout = None

SuitesIdle ==
    /\ tests_runtimes = <<>> /\ max_time_seconds = 0 /\ max_suites = None
    /\ max_tests_per_suite = None /\ current_index = 0
    /\ last_test_processed = 0 /\ suites = <<>>

PassIdle ==
    /\ pc = "idle" /\ idx = 0 /\ thread_dict = <<>> /\ graph_file = None
    /\ cycle_nodes = None /\ cycle_message = None /\ printed = <<>>
    /\ file = None /\ raised = None /\ infos = <<>> /\ log = <<>>
    /\ facts = <<>>
    /\ SuitesIdle
    /\ RunIdle
    /\ TimeoutIdle

InitGraph ==
    /\ nodes = EmptyGraph
    /\ call = [op |-> "__init__", again |-> FALSE]
    /\ ret = None
    /\ before = EmptyGraph
    /\ PassIdle

AddNodeCall ==
    \E n \in GraphNodes :
        /\ nodes' = add_node(nodes, n)
        /\ call' = [op |-> "add_node", again |-> HasKey(nodes, key(n))]
        /\ ret' = None
        /\ before' = EmptyGraph
        /\ printed' = <<>>
        /\ UNCHANGED passVars

AddEdgeCall ==
    \E f \in GraphNodes, t \in GraphNodes :
        /\ EdgeCount(add_edge(nodes, f, t)) <= MaxEdges
        /\ nodes' = add_edge(nodes, f, t)
        /\ call' = [op |-> "add_edge",
                    again |-> HasKey(nodes, key(f))
                                /\ InList(key(t), Entry(nodes, key(f)).next_nodes)]
        /\ ret' = None
        /\ before' = EmptyGraph
        /\ printed' = <<>>
        /\ UNCHANGED passVars

RemoveNodesWithoutEdgeCall ==
    /\ nodes' = remove_nodes_without_edge(nodes)
    /\ call' = [op |-> "remove_nodes_without_edge", again |-> FALSE]
    /\ ret' = None
    /\ before' = nodes
    /\ printed' = <<>>
    /\ UNCHANGED passVars

DetectCycleCall ==
    /\ ret' = detect_cycle(nodes)
    /\ nodes' = detect_cycle_self_nodes(nodes)
    /\ call' = [op |-> "detect_cycle", again |-> FALSE]
    /\ before' = nodes
    /\ printed' = <<>>
    /\ UNCHANGED passVars

\* The arguments <<nodes, message>> to_graph is called with: the defaults, the
\* list that detect_cycle returns with a message (as mongodb_waitsfor_graph
\* calls it), a list of one key.
ToGraphArgs(g) ==
    { <<None, None>>,
      <<detect_cycle(g), PyStr("# No cycle detected in the graph")>>,
      <<PyList(<<key(Thread(1, 11, "conn1"))>>), None>> }

ToGraphCall ==
    \E args \in ToGraphArgs(nodes) :
        LET r == to_graph_call(nodes, args[1], args[2]) IN
        /\ ret' = PyStr(r.ret)
        /\ nodes' = r.self_nodes
        /\ call' = [op |-> "to_graph", again |-> FALSE, nodes |-> args[1],
                    message |-> args[2]]
        /\ before' = nodes
        /\ printed' = <<>>
        /\ UNCHANGED passVars

\* graph.print(): it returns None and reads self.nodes only.
GraphPrintCall ==
    /\ printed' = Graph_print(nodes)
    /\ nodes' = nodes
    /\ call' = [op |-> "print", again |-> FALSE]
    /\ ret' = None
    /\ before' = nodes
    /\ UNCHANGED passVars

NextGraph ==
    \/ AddNodeCall
    \/ AddEdgeCall
    \/ RemoveNodesWithoutEdgeCall
    \/ DetectCycleCall
    \/ ToGraphCall
    \/ GraphPrintCall

SpecGraph == InitGraph /\ [][NextGraph]_vars

-----------------------------------------------------------------------------
(* SpecRepeat: detect_cycle and to_graph called again and again, in any     *)
(* order, on a graph that add_edge has built. log holds the calls made      *)
(* since the graph was last added to: the arguments, self.nodes as the call *)
(* found and left it, and what the call returned.                           *)

\* The node objects add_edge is called with.
RepeatNodes == { Thread(1, 11, "conn1"), Thread(2, 12, "conn2"), Lock(1, "Mutex") }

\* The arguments <<nodes, message>> to_graph is called with: the defaults, and
\* a list of two keys with a header.
RepeatArgs ==
    { <<None, None>>,
      <<PyList(<<key(Thread(1, 11, "conn1")), key(Lock(1, "Mutex"))>>),
        PyStr("# header")>> }

RepeatAddEdge ==
    \E f \in RepeatNodes, t \in RepeatNodes :
        /\ EdgeCount(add_edge(nodes, f, t)) <= MaxEdges
        /\ nodes' = add_edge(nodes, f, t)
        /\ call' = [op |-> "add_edge",
                    again |-> HasKey(nodes, key(f))
                                /\ InList(key(t), Entry(nodes, key(f)).next_nodes)]
        /\ ret' = None
        /\ before' = EmptyGraph
        /\ printed' = <<>>
        /\ log' = <<>>
        /\ UNCHANGED <<pc, idx, thread_dict, graph_file, cycle_nodes, cycle_message,
                       file, raised, infos, otherVars>>

RepeatDetectCycle ==
    /\ Len(log) < MaxCalls
    /\ ret' = detect_cycle(nodes)
    /\ nodes' = detect_cycle_self_nodes(nodes)
    /\ call' = [op |-> "detect_cycle", again |-> FALSE]
    /\ before' = nodes
    /\ printed' = <<>>
    /\ log' = Append(log, [op |-> "detect_cycle", nodes |-> None, message |-> None,
                           found |-> nodes, left |-> nodes', ret |-> ret'])
    /\ UNCHANGED <<pc, idx, thread_dict, graph_file, cycle_nodes, cycle_message,
                   file, raised, infos, otherVars>>

RepeatToGraph ==
    /\ Len(log) < MaxCalls
    /\ \E args \in RepeatArgs :
          LET r == to_graph_call(nodes, args[1], args[2]) IN
          /\ ret' = PyStr(r.ret)
          /\ nodes' = r.self_nodes
          /\ call' = [op |-> "to_graph", again |-> FALSE, nodes |-> args[1],
                      message |-> args[2]]
          /\ log' = Append(log, [op |-> "to_graph", nodes |-> args[1],
                                 message |-> args[2],
                                 found |-> nodes, left |-> nodes', ret |-> ret'])
    /\ before' = nodes
    /\ printed' = <<>>
    /\ UNCHANGED <<pc, idx, thread_dict, graph_file, cycle_nodes, cycle_message,
                   file, raised, infos, otherVars>>

NextRepeat ==
    \/ RepeatAddEdge
    \/ RepeatDetectCycle
    \/ RepeatToGraph

SpecRepeat == InitGraph /\ [][NextRepeat]_vars

-----------------------------------------------------------------------------
(* One pass of mongodb_waitsfor_graph. The inferior and gdb are the inputs: *)
(* what each gdb call returns or raises is chosen when the call is made.   *)

\* gdb.selected_inferior().threads(): the threads by their number thread.num.
InferiorThreads == {1, 2}

LastThread == CHOOSE i \in InferiorThreads : \A j \in InferiorThreads : j <= i

\* thread.ptid[1] of thread i: each thread has an LWP id of its own.
LwpOf(i) == 100 + i

\* What get_thread_id() returns in thread i when it finds the id.
TidOf(i) == 16 * i

\* What get_current_thread_name() returns in thread i.
NameOf(i) == "conn" \o DecStr(i)

\* str(err) of a gdb.error.
GdbErrorText == "Cannot access memory at address 0x0"

\* An LWP that threads() did not list and that equals the number
\* get_thread_id() returned for thread 1: the two numbers come from different
\* sources (ptid[1] and get_thread_id()) and nothing in the code relates them.
UnlistedLwpEqualToThreadId == TidOf(1)

\* Owners a std::mutex may name in __owner: the LWP of a thread of the
\* inferior, or an LWP that threads() did not list.
OwnerLwps == {LwpOf(i) : i \in InferiorThreads} \cup {555}

\* Holders a LockRequest may name in locker->_threadId: the id of a thread of
\* the inferior, or an id no listed thread has.
HolderTids == {TidOf(i) : i \in InferiorThreads} \cup {777}

MutexAddrs == {1, 2}

\* The lock head lies at an address that equals, as a number, the id of
\* thread 1: addresses and thread ids are unrelated numbers.
LockHeadAddrs == {TidOf(1)}

\* What get_threads_info meets in one thread.
ThreadInfos ==
    { [kind |-> k] : k \in {"invalid", "gdb.error", "no_thread_id", "found"} }

\* How a walk of find_frame over the frames of the selected thread ends when
\* no frame matches: frame.older() returns None at the oldest frame
\* ("no_frame"), frame.older() raises gdb.error ("older_gdb.error", lines
\* 229-233), or frame.block() raises an exception that line 224 raises again:
\* a gdb.error, which is a RuntimeError ("block_gdb.error"), or another
\* RuntimeError whose message is not "Cannot locate block for frame."
\* ("RuntimeError").
NoFrameWalks == {"no_frame", "older_gdb.error", "block_gdb.error", "RuntimeError"}

\* What find_mutex_holder meets in the selected thread: no frame of
\* std::mutex::lock(), the walk ending in one of the four ways; a gdb.error
\* while selecting the frame found or reading its mutex (lines 242-249); or a
\* mutex at
\* addr whose __owner is owner; the mutex at 1 may also be owned by the
\* unlisted LWP that equals a thread id.
MutexFacts ==
    { [kind |-> k, addr |-> 0, owner |-> 0] : k \in NoFrameWalks \cup {"gdb.error"} }
    \cup { [kind |-> "wait", addr |-> a, owner |-> o] : a \in MutexAddrs, o \in OwnerLwps }
    \cup { [kind |-> "wait", addr |-> 1, owner |-> UnlistedLwpEqualToThreadId] }

\* str(lock_request["mode"]) of the requests of the model.
RequestModes == {"mongo::MODE_X"}

RECURSIVE SeqsUpTo(_, _)
\* The sequences over S of length n or less.
SeqsUpTo(S, n) ==
    IF n = 0 THEN {<<>>}
    ELSE LET shorter == SeqsUpTo(S, n - 1)
         IN  shorter \cup {Append(q, x) : q \in shorter, x \in S}

\* What find_lock_manager_holders meets in the selected thread: no frame of
\* LockerImpl, the walk ending in one of the four ways; a gdb.error of
\* frame.select() (line 277), before the waiter is looked up
\* ("select_gdb.error"); a gdb.error while evaluating the lock head, after it
\* (lines 282-287, "gdb.error"); or a lock head at addr with the
\* holders of its grantedList in order and the mode of each request, the
\* walk of the list ending at the null pointer ("end") or by a gdb.error on
\* the next request.
LockManagerFacts ==
    { [kind |-> k, addr |-> 0, granted |-> <<>>, modes |-> <<>>, ends |-> "end"] :
        k \in NoFrameWalks \cup {"select_gdb.error", "gdb.error"} }
    \cup UNION { { [kind |-> "wait", addr |-> a, granted |-> q, modes |-> md, ends |-> e] :
                    a \in LockHeadAddrs, md \in [1..Len(q) -> RequestModes],
                    e \in {"end", "gdb.error"} } :
                  q \in SeqsUpTo(HolderTids, MaxGranted) }

\* The fact stands for a walk of find_frame that matched no frame and raised
\* nothing.
NoFrame(fact) == fact.kind \in {"no_frame", "older_gdb.error"}

\* find_lock_manager_holders is not reached.
NotReached ==
    [kind |-> "no_frame", addr |-> 0, granted |-> <<>>, modes |-> <<>>, ends |-> "end"]

\* When find_mutex_holder raises at its find_frame or at the read of the
\* mutex, find_lock_manager_holders is not called and meets nothing. The two
\* walks of find_frame are two series of gdb calls, and the second may end in
\* another way than the first.
LockManagerReached(m, l) ==
    m.kind \in {"gdb.error", "block_gdb.error", "RuntimeError"} => l = NotReached

\* What get_locks meets in one thread.
LockFacts ==
    { [kind |-> k, mutex |-> [kind |-> "no_frame", addr |-> 0, owner |-> 0],
       lockmgr |-> NotReached] :
        k \in {"invalid", "gdb.error"} }
    \cup { [kind |-> "inspected", mutex |-> p[1], lockmgr |-> p[2]] :
             p \in {q \in MutexFacts \X LockManagerFacts : LockManagerReached(q[1], q[2])} }

\* The values of the graph_file argument: the default, gdb's empty argument
\* string, a file name.
GraphFiles == {None, PyStr(""), PyStr("graph.gv")}

\* What the file named graph_file holds when the pass starts: there is no such
\* file (None; always so when no file is named), or a file left by an earlier
\* run.
PriorContents(gf) ==
    IF ~IsNone(gf) /\ gf.str # "" THEN {None, PyStr("stale\n")} ELSE {None}

\* A plausible slip: the file is opened with mode 'a'.
write_appending(prior, text) ==
    IF IsNone(prior) THEN PyStr(text) ELSE PyStr(prior.str \o text)

\* with open(graph_file, 'w') as fh: fh.write(text). The contents of the file
\* after the with statement; mode 'w' makes the file or empties it.
write(prior, text) == PyStr(text)

\* thread_dict, a dict: its entries [key, value] in insertion order.
DictHas(d, k) == \E i \in 1..Len(d) : d[i].key = k

DictGet(d, k) == d[CHOOSE i \in 1..Len(d) : d[i].key = k].value

\* d[k] = v
DictSet(d, k, v) ==
    IF DictHas(d, k)
    THEN [i \in 1..Len(d) |-> IF d[i].key = k THEN [key |-> k, value |-> v] ELSE d[i]]
    ELSE Append(d, [key |-> k, value |-> v])

\* find_thread
find_thread(td, search_thread_id) ==
    LET hits == {i \in 1..Len(td) : td[i].value.thread_id = search_thread_id}
    IN  IF hits = {} THEN None
        ELSE td[CHOOSE i \in hits : \A j \in hits : i <= j].value

\* The body of the loop of get_threads_info for thread i: the dict and the
\* lines printed.
get_threads_info_thread(td, i, info) ==
    CASE info.kind = "invalid" ->
            [thread_dict |-> td, printed |-> <<>>]
      [] info.kind = "gdb.error" ->
            [thread_dict |-> td,
             printed |-> <<"Ignoring GDB error '" \o GdbErrorText
                             \o "' in get_threads_info">>]
      [] info.kind = "no_thread_id" ->
            [thread_dict |-> td,
             printed |-> <<"Unable to retrieve thread_info for thread " \o DecStr(i)>>]
      [] OTHER ->
            [thread_dict |-> DictSet(td, LwpOf(i), Thread(TidOf(i), LwpOf(i), NameOf(i))),
             printed |-> <<>>]

\* str(mutex_value), str(lock_head): gdb prints a pointer in hexadecimal.
PointerStr(addr) == "0x" \o HexStr(addr)

\* A Graph object, as the argument graph; the argument is None when no graph
\* is built.
GraphObject(g) == [nodes |-> g]

\* find_frame, by the way its walk ends: whether a frame is returned, the
\* lines printed, and the exception that leaves the function.
find_frame(walk) ==
    CASE walk = "no_frame" ->
            [frame |-> FALSE, printed |-> <<>>, exc |-> None]
      [] walk = "older_gdb.error" ->
            [frame |-> FALSE,
             printed |-> <<"Ignoring GDB error '" \o GdbErrorText \o "' in find_frame">>,
             exc |-> None]
      [] walk = "block_gdb.error" ->
            [frame |-> FALSE, printed |-> <<>>, exc |-> PyStr("gdb.error")]
      [] walk = "RuntimeError" ->
            [frame |-> FALSE, printed |-> <<>>, exc |-> PyStr("RuntimeError")]
      [] OTHER ->
            [frame |-> TRUE, printed |-> <<>>, exc |-> None]

\* "{}".format(x) of a Thread, a Lock or None.
FormatNode(x) == IF IsNone(x) THEN "None" ELSE str(x)

\* find_mutex_holder in thread i: the graph, the lines printed, and the
\* exception that leaves the function (None when it returns).
find_mutex_holder(graph, td, show, i, m) ==
    LET frame == find_frame(m.kind) IN
    IF ~frame.frame THEN [graph |-> graph, printed |-> frame.printed, exc |-> frame.exc]
    ELSE IF m.kind = "gdb.error"
    THEN [graph |-> graph, printed |-> <<>>, exc |-> PyStr("gdb.error")]
    ELSE
    LET known == DictHas(td, m.owner)
        warning ==
            IF known THEN <<>>
            ELSE <<"Warning: Mutex at " \o PointerStr(m.addr)
                     \o " held by thread with LWP " \o DecStr(m.owner)
                     \o " not found in thread_dict. Using LWP to track thread.">>
        mutex_holder ==
            IF known THEN DictGet(td, m.owner)
            ELSE Thread(m.owner, m.owner, "\"[unknown]\"")
    IN  IF ~DictHas(td, LwpOf(i))
        THEN [graph |-> graph, printed |-> warning, exc |-> PyStr("KeyError")]
        ELSE LET mutex_waiter == DictGet(td, LwpOf(i))
                 shown ==
                     IF show
                     THEN <<"Mutex at " \o PointerStr(m.addr) \o " held by "
                              \o FormatNode(mutex_holder) \o " waited on by "
                              \o FormatNode(mutex_waiter)>>
                     ELSE <<>>
             IN  IF IsNone(graph)
                 THEN [graph |-> graph, printed |-> warning \o shown, exc |-> None]
                 ELSE LET g1 == add_edge(graph.nodes, mutex_waiter, Lock(m.addr, "Mutex"))
                          g2 == add_edge(g1, Lock(m.addr, "Mutex"), mutex_holder)
                      IN  [graph |-> GraphObject(g2), printed |-> warning \o shown,
                           exc |-> None]

RECURSIVE GrantedLoop(_, _, _, _, _, _, _)
\* The while loop of find_lock_manager_holders from request n of the granted
\* list on; out holds the lines printed so far.
GrantedLoop(graph, td, show, lock_waiter, l, n, out) ==
    IF n > Len(l.granted)
    THEN [graph |-> graph, printed |-> out,
          exc |-> IF l.ends = "gdb.error" THEN PyStr("gdb.error") ELSE None]
    ELSE LET lock_holder == find_thread(td, l.granted[n])
             shown ==
                 IF show
                 THEN <<"MongoDB Lock at " \o PointerStr(l.addr) \o " (" \o l.modes[n]
                          \o ") held by " \o FormatNode(lock_holder) \o " waited on by "
                          \o FormatNode(lock_waiter)>>
                 ELSE <<>>
         IN  IF IsNone(graph)
             THEN GrantedLoop(graph, td, show, lock_waiter, l, n + 1, out \o shown)
             ELSE
             LET g1 == add_edge(graph.nodes, lock_waiter, Lock(l.addr, "MongoDB lock")) IN
             IF IsNone(lock_holder)
             THEN \* add_edge(Lock, None): find_node calls None.key()
                  [graph |-> GraphObject(g1), printed |-> out \o shown,
                   exc |-> PyStr("AttributeError")]
             ELSE GrantedLoop(
                      GraphObject(add_edge(g1, Lock(l.addr, "MongoDB lock"), lock_holder)),
                      td, show, lock_waiter, l, n + 1, out \o shown)

\* A plausible slip: the waiter is registered with add_node before the granted
\* list is walked.
find_lock_manager_holders_registering(graph, td, show, i, l) ==
    LET frame == find_frame(l.kind) IN
    IF ~frame.frame THEN [graph |-> graph, printed |-> frame.printed, exc |-> frame.exc]
    ELSE IF l.kind = "select_gdb.error"
    THEN [graph |-> graph, printed |-> <<>>, exc |-> PyStr("gdb.error")]
    ELSE IF ~DictHas(td, LwpOf(i))
    THEN [graph |-> graph, printed |-> <<>>, exc |-> PyStr("KeyError")]
    ELSE IF l.kind = "gdb.error"
    THEN [graph |-> graph, printed |-> <<>>, exc |-> PyStr("gdb.error")]
    ELSE GrantedLoop(IF IsNone(graph) THEN graph
                     ELSE GraphObject(add_node(graph.nodes, DictGet(td, LwpOf(i)))),
                     td, show, DictGet(td, LwpOf(i)), l, 1, <<>>)

\* find_lock_manager_holders in thread i.
find_lock_manager_holders(graph, td, show, i, l) ==
    LET frame == find_frame(l.kind) IN
    IF ~frame.frame THEN [graph |-> graph, printed |-> frame.printed, exc |-> frame.exc]
    ELSE IF l.kind = "select_gdb.error"
    THEN [graph |-> graph, printed |-> <<>>, exc |-> PyStr("gdb.error")]
    ELSE IF ~DictHas(td, LwpOf(i))
    THEN [graph |-> graph, printed |-> <<>>, exc |-> PyStr("KeyError")]
    ELSE IF l.kind = "gdb.error"
    THEN [graph |-> graph, printed |-> <<>>, exc |-> PyStr("gdb.error")]
    ELSE GrantedLoop(graph, td, show, DictGet(td, LwpOf(i)), l, 1, <<>>)

\* The except clause of get_locks: what is printed for exception exc, and the
\* exception that goes on to the caller.
GetLocksExcept(r) ==
    IF r.exc = PyStr("gdb.error")
    THEN [graph |-> r.graph,
          printed |-> r.printed \o <<"Ignoring GDB error '" \o GdbErrorText
                                       \o "' in get_locks">>,
          exc |-> None]
    ELSE r

\* The body of the loop of get_locks for thread i.
get_locks_thread(graph, td, show, i, f) ==
    IF f.kind = "invalid" THEN [graph |-> graph, printed |-> <<>>, exc |-> None]
    ELSE IF f.kind = "gdb.error"
    THEN GetLocksExcept([graph |-> graph, printed |-> <<>>, exc |-> PyStr("gdb.error")])
    ELSE LET a == find_mutex_holder(graph, td, show, i, f.mutex) IN
         IF ~IsNone(a.exc) THEN GetLocksExcept(a)
         ELSE LET b == find_lock_manager_holders(a.graph, td, show, i, f.lockmgr) IN
              GetLocksExcept([graph |-> b.graph, printed |-> a.printed \o b.printed,
                              exc |-> b.exc])

RECURSIVE Split(_, _)
\* s.split(sep), for a separator that is not empty.
Split(s, sep) ==
    LET hits == {i \in 1..(Len(s) - Len(sep) + 1) : SubSeq(s, i, i + Len(sep) - 1) = sep}
    IN  IF hits = {} THEN <<s>>
        ELSE LET i == CHOOSE h \in hits : \A j \in hits : h <= j
             IN  <<SubSeq(s, 1, i - 1)>> \o Split(SubSeq(s, i + Len(sep), Len(s)), sep)

\* bool(v) of a value that is None or a string.
TruthyStr(v) == ~IsNone(v) /\ v.str # ""

NoCycleMessage == "# No cycle detected in the graph"

\* "# Cycle detected in the graph nodes %s" % cycle_nodes
CycleMessage(cn) == "# Cycle detected in the graph nodes " \o ListStr(cn.list)

EmptyGraphNotice == "Not generating the digraph, since the lock graph is empty"

\* The line of the except clause of mongodb_waitsfor_graph.
PassAbortedNotice == "Ignoring GDB error '" \o GdbErrorText \o "' in mongod_deadlock_graph"

Init ==
    /\ nodes = EmptyGraph
    /\ call = [op |-> "__init__", again |-> FALSE]
    /\ ret = None
    /\ before = EmptyGraph
    /\ pc = "get_threads_info"
    /\ idx = 1
    /\ thread_dict = <<>>
    /\ graph_file \in GraphFiles
    /\ cycle_nodes = None
    /\ cycle_message = None
    /\ printed = <<>>
    /\ file \in PriorContents(graph_file)
    /\ raised = None
    /\ infos = <<>>
    /\ log = <<>>
    /\ facts = <<>>
    /\ SuitesIdle
    /\ RunIdle
    /\ TimeoutIdle

\* gdb.selected_inferior().threads() raises gdb.error, in get_threads_info or
\* in get_locks: the call is outside the try of the loop, so the except clause
\* of mongodb_waitsfor_graph takes it.
ThreadsCallFails ==
    /\ UNCHANGED otherVars
    /\ pc \in {"get_threads_info", "get_locks"}
    /\ idx = 1
    /\ printed' = Append(printed, PassAbortedNotice)
    /\ pc' = "done"
    /\ UNCHANGED <<nodes, call, ret, before, idx, thread_dict, graph_file,
                   cycle_nodes, cycle_message, file, raised, infos, log>>

\* One turn of the loop of get_threads_info.
GetThreadsInfoThread ==
    /\ UNCHANGED otherVars
    /\ pc = "get_threads_info"
    /\ \E info \in ThreadInfos :
          LET r == get_threads_info_thread(thread_dict, idx, info) IN
          /\ thread_dict' = r.thread_dict
          /\ printed' = printed \o r.printed
          /\ infos' = Append(infos, info)
    /\ IF idx = LastThread
       THEN pc' = "get_locks" /\ idx' = 1
       ELSE pc' = pc /\ idx' = idx + 1
    /\ UNCHANGED <<nodes, call, ret, before, graph_file, cycle_nodes,
                   cycle_message, file, raised, log>>

\* One turn of the loop of get_locks. An exception that is no gdb.error leaves
\* get_locks and mongodb_waitsfor_graph: the pass ends with it.
GetLocksThread ==
    /\ UNCHANGED otherVars
    /\ pc = "get_locks"
    /\ \E f \in LockFacts :
          LET r == get_locks_thread(GraphObject(nodes), thread_dict, FALSE, idx, f) IN
          \* a thread that was not valid stays so
          /\ infos[idx].kind = "invalid" => f.kind = "invalid"
          /\ nodes' = r.graph.nodes
          /\ printed' = printed \o r.printed
          /\ raised' = r.exc
          /\ log' = Append(log, f)
          /\ IF ~IsNone(r.exc) THEN pc' = "done" /\ idx' = idx
             ELSE IF idx = LastThread
             THEN pc' = "remove_nodes_without_edge" /\ idx' = idx
             ELSE pc' = pc /\ idx' = idx + 1
    /\ UNCHANGED <<call, ret, before, thread_dict, graph_file, cycle_nodes,
                   cycle_message, file, infos>>

\* graph.remove_nodes_without_edge()
RemoveNodesWithoutEdge ==
    /\ UNCHANGED otherVars
    /\ pc = "remove_nodes_without_edge"
    /\ nodes' = remove_nodes_without_edge(nodes)
    /\ before' = nodes
    /\ pc' = "is_empty"
    /\ UNCHANGED <<call, ret, idx, thread_dict, graph_file, cycle_nodes,
                   cycle_message, printed, file, raised, infos, log>>

\* if graph.is_empty(): ... return, and the assignment of cycle_message.
IsEmptyCheck ==
    /\ UNCHANGED otherVars
    /\ pc = "is_empty"
    /\ IF is_empty(nodes)
       THEN /\ printed' = Append(printed, EmptyGraphNotice)
            /\ pc' = "done"
            /\ UNCHANGED cycle_message
       ELSE /\ cycle_message' = PyStr(NoCycleMessage)
            /\ pc' = "detect_cycle"
            /\ UNCHANGED printed
    /\ UNCHANGED <<nodes, call, ret, before, idx, thread_dict, graph_file,
                   cycle_nodes, file, raised, infos, log>>

\* cycle_nodes = graph.detect_cycle() and the if that follows.
DetectCycle ==
    /\ UNCHANGED otherVars
    /\ pc = "detect_cycle"
    /\ LET r == detect_cycle(nodes) IN
       /\ cycle_nodes' = r
       /\ cycle_message' = IF Truthy(r) THEN PyStr(CycleMessage(r)) ELSE cycle_message
    /\ nodes' = detect_cycle_self_nodes(nodes)
    /\ pc' = "output"
    /\ UNCHANGED <<call, ret, before, idx, thread_dict, graph_file,
                   printed, file, raised, infos, log>>

\* The if graph_file: ... else: ... that ends the pass.
Output ==
    /\ UNCHANGED otherVars
    /\ pc = "output"
    /\ LET r == to_graph_call(nodes, cycle_nodes, cycle_message) IN
       /\ IF TruthyStr(graph_file)
          THEN /\ file' = write(file, r.ret)
               /\ printed' = printed \o <<"Saving digraph to " \o graph_file.str,
                                          Split(cycle_message.str, "# ")[2]>>
          ELSE /\ printed' = Append(printed, r.ret)
               /\ UNCHANGED file
       /\ nodes' = r.self_nodes
    /\ pc' = "done"
    /\ UNCHANGED <<call, ret, before, idx, thread_dict, graph_file,
                   cycle_nodes, cycle_message, raised, infos, log>>

Next ==
    \/ ThreadsCallFails
    \/ GetThreadsInfoThread
    \/ GetLocksThread
    \/ RemoveNodesWithoutEdge
    \/ IsEmptyCheck
    \/ DetectCycle
    \/ Output

Spec == Init /\ [][Next]_vars

-----------------------------------------------------------------------------
(* SpecRing: mongodb_waitsfor_graph from get_locks on, over an inferior of  *)
(* n threads that wait for each other in a ring: each thread waits on a     *)
(* lock of its own, a std::mutex or a lock-manager lock, that the next      *)
(* thread of the ring holds. All threads are in thread_dict.                *)

RECURSIVE Orbit(_, _, _)
\* i, succ[i], succ[succ[i]], ...: k threads in all.
Orbit(succ, i, k) == IF k = 0 THEN <<>> ELSE <<i>> \o Orbit(succ, succ[i], k - 1)

\* The ways n threads stand in one ring: succ[i] holds what thread i waits on.
RingOrders(n) ==
    { succ \in [1..n -> 1..n] :
        /\ Cardinality(Range(Orbit(succ, 1, n))) = n
        /\ succ[Orbit(succ, 1, n)[n]] = 1 }

\* What get_locks meets in thread i, which waits on the lock at address i held
\* by thread holder; resource tells a std::mutex from a lock-manager lock.
RingFact(i, holder, resource) ==
    IF resource = "Mutex"
    THEN [kind |-> "inspected",
          mutex |-> [kind |-> "wait", addr |-> i, owner |-> LwpOf(holder)],
          lockmgr |-> NotReached]
    ELSE [kind |-> "inspected",
          mutex |-> [kind |-> "no_frame", addr |-> 0, owner |-> 0],
          lockmgr |-> [kind |-> "wait", addr |-> i, granted |-> <<TidOf(holder)>>,
                       modes |-> <<"mongo::MODE_X">>, ends |-> "end"]]

RECURSIVE RingThreadDict(_)
\* thread_dict as get_threads_info returns it when it finds threads 1..n.
RingThreadDict(n) ==
    IF n = 0 THEN <<>>
    ELSE get_threads_info_thread(RingThreadDict(n - 1), n, [kind |-> "found"]).thread_dict

InitRing ==
    /\ nodes = EmptyGraph
    /\ call = [op |-> "__init__", again |-> FALSE]
    /\ ret = None
    /\ before = EmptyGraph
    /\ pc = "get_locks"
    /\ idx = 1
    /\ \E n \in 2..MaxRing : \E succ \in RingOrders(n) :
       \E resource \in [1..n -> {"Mutex", "MongoDB lock"}] :
          /\ thread_dict = RingThreadDict(n)
          /\ infos = [i \in 1..n |-> [kind |-> "found"]]
          /\ facts = [i \in 1..n |-> RingFact(i, succ[i], resource[i])]
    /\ graph_file = None
    /\ cycle_nodes = None
    /\ cycle_message = None
    /\ printed = <<>>
    /\ file = None
    /\ raised = None
    /\ log = <<>>
    /\ SuitesIdle
    /\ RunIdle
    /\ TimeoutIdle

\* One turn of the loop of get_locks.
RingGetLocksThread ==
    /\ pc = "get_locks"
    /\ LET r == get_locks_thread(GraphObject(nodes), thread_dict, FALSE, idx, facts[idx]) IN
          /\ nodes' = r.graph.nodes
          /\ printed' = printed \o r.printed
          /\ raised' = r.exc
          /\ IF ~IsNone(r.exc) THEN pc' = "done" /\ idx' = idx
             ELSE IF idx = Len(facts)
             THEN pc' = "remove_nodes_without_edge" /\ idx' = idx
             ELSE pc' = pc /\ idx' = idx + 1
    /\ log' = Append(log, facts[idx])
    /\ UNCHANGED <<call, ret, before, thread_dict, graph_file, cycle_nodes,
                   cycle_message, file, infos, facts, suitesVars, runVars,
                   timeoutVars>>

\* The pass goes on as mongodb_waitsfor_graph does after get_locks (lines
\* 386-399).
NextRing ==
    \/ RingGetLocksThread
    \/ RemoveNodesWithoutEdge
    \/ IsEmptyCheck
    \/ DetectCycle
    \/ Output

SpecRing == InitRing /\ [][NextRing]_vars

-----------------------------------------------------------------------------
(* SpecShow: a pass of mongodb_show_locks, the other command of the file:   *)
(* get_threads_info, then get_locks with no graph and show = True, which    *)
(* prints a line for every wait it meets.                                   *)

\* The line of the except clause of mongodb_show_locks.
ShowAbortedNotice == "Ignoring GDB error '" \o GdbErrorText \o "' in mongodb_show_locks"

InitShow ==
    /\ nodes = EmptyGraph
    /\ call = [op |-> "__init__", again |-> FALSE]
    /\ ret = None
    /\ before = EmptyGraph
    /\ pc = "show_locks.get_threads_info"
    /\ idx = 1
    /\ thread_dict = <<>>
    /\ graph_file = None
    /\ cycle_nodes = None
    /\ cycle_message = None
    /\ printed = <<>>
    /\ file = None
    /\ raised = None
    /\ infos = <<>>
    /\ log = <<>>
    /\ facts = <<>>
    /\ SuitesIdle
    /\ RunIdle
    /\ TimeoutIdle

\* gdb.selected_inferior().threads() raises gdb.error, in get_threads_info or
\* in get_locks: the except clause of mongodb_show_locks takes it.
ShowThreadsCallFails ==
    /\ UNCHANGED otherVars
    /\ pc \in {"show_locks.get_threads_info", "show_locks.get_locks"}
    /\ idx = 1
    /\ printed' = Append(printed, ShowAbortedNotice)
    /\ pc' = "done"
    /\ UNCHANGED <<nodes, call, ret, before, idx, thread_dict, graph_file,
                   cycle_nodes, cycle_message, file, raised, infos, log>>

\* One turn of the loop of get_threads_info.
ShowGetThreadsInfoThread ==
    /\ UNCHANGED otherVars
    /\ pc = "show_locks.get_threads_info"
    /\ \E info \in ThreadInfos :
          LET r == get_threads_info_thread(thread_dict, idx, info) IN
          /\ thread_dict' = r.thread_dict
          /\ printed' = printed \o r.printed
          /\ infos' = Append(infos, info)
    /\ IF idx = LastThread
       THEN pc' = "show_locks.get_locks" /\ idx' = 1
       ELSE pc' = pc /\ idx' = idx + 1
    /\ UNCHANGED <<nodes, call, ret, before, graph_file, cycle_nodes,
                   cycle_message, file, raised, log>>

\* One turn of the loop of get_locks(graph=None, thread_dict=thread_dict,
\* show=True). An exception that is no gdb.error leaves get_locks and
\* mongodb_show_locks: the pass ends with it.
ShowGetLocksThread ==
    /\ UNCHANGED otherVars
    /\ pc = "show_locks.get_locks"
    /\ \E f \in LockFacts :
          LET r == get_locks_thread(None, thread_dict, TRUE, idx, f) IN
          \* a thread that was not valid stays so
          /\ infos[idx].kind = "invalid" => f.kind = "invalid"
          /\ printed' = printed \o r.printed
          /\ raised' = r.exc
          /\ log' = Append(log, f)
          /\ IF ~IsNone(r.exc) \/ idx = LastThread
             THEN pc' = "done" /\ idx' = idx
             ELSE pc' = pc /\ idx' = idx + 1
    /\ UNCHANGED <<nodes, call, ret, before, thread_dict, graph_file, cycle_nodes,
                   cycle_message, file, infos>>

NextShow ==
    \/ ShowThreadsCallFails
    \/ ShowGetThreadsInfoThread
    \/ ShowGetLocksThread

SpecShow == InitShow /\ [][NextShow]_vars

-----------------------------------------------------------------------------
(* buildscripts/evergreen_generate_resmoke_tasks.py: dividing tests into   *)
(* suites. SpecSuites is one call of divide_tests_into_suites on any       *)
(* arguments within the bounds. A runtime is an integer number of seconds; *)
(* an argument that is an int or None is PyInt(n) or None.                 *)

PyInt(n) == [int |-> n]

\* bool(v) of an int or None.
TruthyInt(v) == ~IsNone(v) /\ v.int # 0

\* Suite.__init__; index is Suite._current_index as the constructor finds it.
Suite(source_name, index) ==
    [tests |-> <<>>, total_runtime |-> 0, max_runtime |-> 0,
     tests_with_runtime_info |-> 0, source_name |-> source_name,
     index |-> index]

\* Suite.add_test
add_test(suite, test_file, runtime) ==
    [suite EXCEPT
        !.tests = Append(@, test_file),
        !.total_runtime = @ + runtime,
        !.tests_with_runtime_info = IF runtime # 0 THEN @ + 1 ELSE @,
        !.max_runtime = IF runtime > @ THEN runtime ELSE @]

\* Suite.get_runtime
get_runtime(suite) == suite.total_runtime

\* Suite.get_test_count
get_test_count(suite) == Len(suite.tests)

RECURSIVE DealRemaining(_, _, _)
\* The loop of divide_remaining_tests_among_suites, suite_idx counted from 0.
DealRemaining(remaining_tests_runtimes, suites_, suite_idx) ==
    IF remaining_tests_runtimes = <<>> THEN suites_
    ELSE LET test_file == Head(remaining_tests_runtimes)[1]
             runtime == Head(remaining_tests_runtimes)[2]
             dealt == [suites_ EXCEPT ![suite_idx + 1] = add_test(@, test_file, runtime)]
         IN  DealRemaining(Tail(remaining_tests_runtimes), dealt,
                           IF suite_idx + 1 >= Len(suites_) THEN 0 ELSE suite_idx + 1)

\* Dealing that starts with the last suite.
divide_remaining_from_last(remaining_tests_runtimes, suites_) ==
    DealRemaining(remaining_tests_runtimes, suites_, Len(suites_) - 1)

\* divide_remaining_tests_among_suites: the suites after the call, which
\* changes them in place.
divide_remaining_tests_among_suites(remaining_tests_runtimes, suites_) ==
    DealRemaining(remaining_tests_runtimes, suites_, 0)

\* current_suite.get_test_count() + 1 > max_tests_per_suite
OverTestCount(current_suite, max_tests_per_suite_) ==
    get_test_count(current_suite) + 1 > max_tests_per_suite_.int

\* A check of the suite as it is, which leaves the runtime of the test out.
new_suite_needed_once_over(current_suite, test_runtime, max_suite_runtime, max_tests_per_suite_) ==
    \/ get_runtime(current_suite) > max_suite_runtime
    \/ TruthyInt(max_tests_per_suite_) /\ OverTestCount(current_suite, max_tests_per_suite_)

new_suite_needed(current_suite, test_runtime, max_suite_runtime, max_tests_per_suite_) ==
    IF get_runtime(current_suite) + test_runtime > max_suite_runtime THEN TRUE
    ELSE IF TruthyInt(max_tests_per_suite_)
            /\ OverTestCount(current_suite, max_tests_per_suite_) THEN TRUE
    ELSE FALSE

\* len(suites) >= max_suites
LimitReached(suites_, max_suites_) == Len(suites_) >= max_suites_.int

RECURSIVE DivideLoop(_, _, _, _, _, _, _)
\* The for loop of divide_tests_into_suites from its turn idx (counted from 0)
\* on; st holds the locals suites, current_suite and last_test_processed and
\* Suite._current_index.
DivideLoop(st, idx_, suite_name, tests_runtimes_, max_time_seconds_, max_suites_, max_tests_per_suite_) ==
    IF idx_ >= Len(tests_runtimes_) THEN st
    ELSE
    LET test_file == tests_runtimes_[idx_ + 1][1]
        runtime == tests_runtimes_[idx_ + 1][2]
        finished ==
            /\ new_suite_needed(st.current_suite, runtime, max_time_seconds_,
                                max_tests_per_suite_)
            /\ get_test_count(st.current_suite) > 0
        opened ==
            IF finished
            THEN [st EXCEPT !.suites = Append(@, st.current_suite),
                            !.current_suite = Suite(suite_name, st.current_index),
                            !.current_index = @ + 1]
            ELSE st
    IN  IF finished /\ TruthyInt(max_suites_) /\ LimitReached(opened.suites, max_suites_)
        THEN [opened EXCEPT !.last_test_processed = idx_]
        ELSE DivideLoop([opened EXCEPT
                            !.current_suite = add_test(@, test_file, runtime)],
                        idx_ + 1, suite_name, tests_runtimes_, max_time_seconds_,
                        max_suites_, max_tests_per_suite_)

\* A plausible slip: the remaining tests are taken from the one after the test
\* that met the limit.
divide_tests_into_suites_skipping(suite_name, tests_runtimes_, max_time_seconds_, max_suites_, max_tests_per_suite_, current_index_) ==
    LET st == DivideLoop([suites |-> <<>>,
                          current_suite |-> Suite(suite_name, current_index_),
                          last_test_processed |-> Len(tests_runtimes_),
                          current_index |-> current_index_ + 1],
                         0, suite_name, tests_runtimes_, max_time_seconds_,
                         max_suites_, max_tests_per_suite_)
        all == IF get_test_count(st.current_suite) > 0
               THEN Append(st.suites, st.current_suite)
               ELSE st.suites
    IN  [suites |->
            IF TruthyInt(max_suites_) /\ st.last_test_processed < Len(tests_runtimes_)
            THEN divide_remaining_tests_among_suites(
                     SubSeq(tests_runtimes_, st.last_test_processed + 2,
                            Len(tests_runtimes_)), all)
            ELSE all,
         last_test_processed |-> st.last_test_processed,
         current_index |-> st.current_index]

\* divide_tests_into_suites: the list returned, with the local
\* last_test_processed and Suite._current_index as the call leaves them.
divide_tests_into_suites(suite_name, tests_runtimes_, max_time_seconds_, max_suites_, max_tests_per_suite_, current_index_) ==
    LET st == DivideLoop([suites |-> <<>>,
                          current_suite |-> Suite(suite_name, current_index_),
                          last_test_processed |-> Len(tests_runtimes_),
                          current_index |-> current_index_ + 1],
                         0, suite_name, tests_runtimes_, max_time_seconds_,
                         max_suites_, max_tests_per_suite_)
        all == IF get_test_count(st.current_suite) > 0
               THEN Append(st.suites, st.current_suite)
               ELSE st.suites
    IN  [suites |->
            IF TruthyInt(max_suites_) /\ st.last_test_processed < Len(tests_runtimes_)
            THEN divide_remaining_tests_among_suites(
                     SubSeq(tests_runtimes_, st.last_test_processed + 1,
                            Len(tests_runtimes_)), all)
            ELSE all,
         last_test_processed |-> st.last_test_processed,
         current_index |-> st.current_index]

\* The name of the i-th test of a list.
TestFile(i) == "jstests/core/test" \o ToString(i) \o ".js"

\* The runtimes of a test; a test without history has runtime 0.
Runtimes == -1..MaxRuntime

\* The lists of (test_file, runtime) that divide_tests_into_suites is given.
TestsRuntimes ==
    UNION { { [i \in 1..n |-> <<TestFile(i), r[i]>>] : r \in [1..n -> Runtimes] } :
            n \in 0..MaxTests }

\* The values of max_suites and of max_tests_per_suite.
SuiteLimits == {None, PyInt(0), PyInt(1), PyInt(2), PyInt(3)}
TestLimits == {None, PyInt(0), PyInt(1), PyInt(2)}

\* The argument suite_name.
SuiteName == "core"

InitSuites ==
    /\ nodes = EmptyGraph
    /\ call = [op |-> "__init__", again |-> FALSE]
    /\ ret = None
    /\ before = EmptyGraph
    /\ pc = "divide_tests_into_suites"
    /\ idx = 0 /\ thread_dict = <<>> /\ graph_file = None
    /\ cycle_nodes = None /\ cycle_message = None /\ printed = <<>>
    /\ file = None /\ raised = None /\ infos = <<>> /\ log = <<>>
    /\ facts = <<>>
    /\ tests_runtimes \in TestsRuntimes
    /\ max_time_seconds \in 0..MaxRuntime
    /\ max_suites \in SuiteLimits
    /\ max_tests_per_suite \in TestLimits
    /\ current_index = 0
    /\ last_test_processed = 0
    /\ suites = <<>>
    /\ RunIdle
    /\ TimeoutIdle

\* suites = divide_tests_into_suites(suite_name, tests_runtimes,
\*                                   max_time_seconds, max_suites,
\*                                   max_tests_per_suite)
DivideTestsIntoSuites ==
    /\ pc = "divide_tests_into_suites"
    /\ LET r == divide_tests_into_suites(SuiteName, tests_runtimes, max_time_seconds,
                                         max_suites, max_tests_per_suite,
                                         current_index)
       IN  /\ suites' = r.suites
           /\ last_test_processed' = r.last_test_processed
           /\ current_index' = r.current_index
    /\ pc' = "return"
    /\ UNCHANGED <<graphVars, idx, thread_dict, graph_file, cycle_nodes,
                   cycle_message, printed, file, raised, infos, log, facts,
                   tests_runtimes, max_time_seconds, max_suites,
                   max_tests_per_suite, runVars, timeoutVars>>

NextSuites == DivideTestsIntoSuites

SpecSuites == InitSuites /\ [][NextSuites]_vars

-----------------------------------------------------------------------------
(* One call of calculate_timeout of                                        *)
(* buildscripts/evergreen_generate_resmoke_tasks.py.                       *)

\* The largest avg_runtime of a call, in seconds.
MaxAvgRuntime == 480

\* MIN_TIMEOUT_SECONDS = int(timedelta(minutes=5).total_seconds())
MIN_TIMEOUT_SECONDS == 300

\* max(a, b) of two integers.
PyMax(a, b) == IF a >= b THEN a ELSE b

\* round_to_minute, nested in calculate_timeout: int(math.ceil(x)) of an
\* integer x is x.
round_to_minute(runtime) ==
    LET distance_to_min == 60 - (runtime % 60)
    IN  runtime + distance_to_min

\* calculate_timeout
calculate_timeout(avg_runtime_, scaling_factor_) ==
    PyMax(MIN_TIMEOUT_SECONDS, round_to_minute(avg_runtime_)) * scaling_factor_

\* The values of the argument scaling_factor; the callers pass 3.
ScalingFactors == {1, 2, 3}

InitTimeout ==
    /\ nodes = EmptyGraph
    /\ call = [op |-> "__init__", again |-> FALSE]
    /\ ret = None
    /\ before = EmptyGraph
    /\ pc = "calculate_timeout"
    /\ idx = 0 /\ thread_dict = <<>> /\ graph_file = None
    /\ cycle_nodes = None /\ cycle_message = None /\ printed = <<>>
    /\ file = None /\ raised = None /\ infos = <<>> /\ log = <<>>
    /\ facts = <<>>
    /\ SuitesIdle
    /\ RunIdle
    /\ avg_runtime \in 0..MaxAvgRuntime
    /\ scaling_factor \in ScalingFactors
    /\ timeout = None

\* The call of calculate_timeout(avg_runtime, scaling_factor).
CalculateTimeout ==
    /\ pc = "calculate_timeout"
    /\ timeout' = PyInt(calculate_timeout(avg_runtime, scaling_factor))
    /\ pc' = "returned"
    /\ UNCHANGED <<graphVars, idx, thread_dict, graph_file, cycle_nodes,
                   cycle_message, printed, file, raised, infos, log, facts,
                   suitesVars, runVars, avg_runtime, scaling_factor>>

NextTimeout == CalculateTimeout

SpecTimeout == InitTimeout /\ [][NextTimeout]_vars

-----------------------------------------------------------------------------
(* buildscripts/evergreen_generate_resmoke_tasks.py: GenerateSubSuites.run *)
(* in a task that Evergreen restarts. SpecRun follows one task through its *)
(* executions: each execution calls run, ends as a success or a failure,   *)
(* and may be restarted. task.is_success[i + 1] is what                    *)
(* task.get_execution(i).is_success() returns.                             *)

PyBool(b) == [bool |-> b]

RECURSIVE NoSuccessFrom(_, _)
\* The loop of should_tasks_be_generated from i on: FALSE when it returns
\* False, TRUE when it runs out.
NoSuccessFrom(task_, i) ==
    IF i >= task_.execution THEN TRUE
    ELSE IF task_.is_success[i + 1] THEN FALSE
    ELSE NoSuccessFrom(task_, i + 1)

\* A check of the execution before the current one only.
should_tasks_be_generated_previous(task_) ==
    IF task_.execution = 0 THEN TRUE ELSE ~task_.is_success[task_.execution]

\* should_tasks_be_generated(evg_api, task_id), task_ being what
\* evg_api.task_by_id(task_id, fetch_all_executions=True) returns.
should_tasks_be_generated(task_) == NoSuccessFrom(task_, 0)

InitRun ==
    /\ nodes = EmptyGraph
    /\ call = [op |-> "__init__", again |-> FALSE]
    /\ ret = None
    /\ before = EmptyGraph
    /\ pc = "run"
    /\ idx = 0 /\ thread_dict = <<>> /\ graph_file = None
    /\ cycle_nodes = None /\ cycle_message = None /\ printed = <<>>
    /\ file = None /\ raised = None /\ infos = <<>> /\ log = <<>>
    /\ facts = <<>>
    /\ SuitesIdle
    /\ RunIdle
    /\ TimeoutIdle

\* What get_evg_stats and filter_existing_tests give calculate_suites: an
\* HTTPError that is raised again (line 692); no history, a 503 or no runtime
\* left by the filter, with the tests list_tests names ("fallback"); or the
\* runtimes of n tests of 40 seconds each.
EvgStats ==
    { [kind |-> "HTTPError", test_list |-> <<>>, tests_runtimes |-> <<>>] }
    \cup { [kind |-> "fallback", test_list |-> [i \in 1..n |-> TestFile(i)],
             tests_runtimes |-> <<>>] : n \in 0..3 }
    \cup { [kind |-> "stats", test_list |-> <<>>,
             tests_runtimes |-> [i \in 1..n |-> <<TestFile(i), 40>>]] : n \in 1..3 }

\* The config_options that run reads, as ConfigOptions.from_file gives them
\* to main: target_resmoke_time is 60 when the expansions do not name it,
\* max_tests_per_suite 100, max_sub_suites None, use_default_timeouts False;
\* a value the expansions name goes through int().
RunConfigs ==
    { [target_resmoke_time |-> t, max_sub_suites |-> ms, max_tests_per_suite |-> mt,
       fallback_num_sub_suites |-> f, use_default_timeouts |-> u] :
        t \in {1, 60}, ms \in {None, PyInt(2)}, mt \in {PyInt(100), PyInt(1)},
        f \in {1, 2}, u \in BOOLEAN }

RECURSIVE FallbackDeal(_, _, _)
\* The for loop of calculate_fallback_suites from test idx_ + 1 of test_list on.
FallbackDeal(suites_, test_list, idx_) ==
    IF idx_ >= Len(test_list) THEN suites_
    ELSE LET j == (idx_ % Len(suites_)) + 1
         IN  FallbackDeal([suites_ EXCEPT ![j] = add_test(@, test_list[idx_ + 1], 0)],
                          test_list, idx_ + 1)

\* calculate_fallback_suites: the suites, and Suite._current_index as the
\* num_suites constructor calls leave it.
calculate_fallback_suites(suite_name, test_list, num_suites, current_index_) ==
    [suites |-> FallbackDeal([k \in 1..num_suites |->
                                 Suite(suite_name, current_index_ + k - 1)],
                             test_list, 0),
     current_index |-> current_index_ + num_suites]

\* Suite.should_overwrite_timeout
should_overwrite_timeout(suite) == Len(suite.tests) = suite.tests_with_runtime_info

\* The arguments avg_runtime of the calls of calculate_timeout that
\* _get_timeout_command makes for one suite (lines 495-507), in order.
SuiteTimeoutCalls(suite, use_default) ==
    LET max_test_runtime == IF should_overwrite_timeout(suite) THEN suite.max_runtime ELSE 0
        expected_suite_runtime ==
            IF should_overwrite_timeout(suite) THEN suite.total_runtime ELSE 0
    IN  IF (max_test_runtime # 0 \/ expected_suite_runtime # 0) /\ ~use_default
        THEN (IF max_test_runtime # 0 THEN <<max_test_runtime>> ELSE <<>>)
             \o (IF expected_suite_runtime # 0 THEN <<expected_suite_runtime>> ELSE <<>>)
        ELSE <<>>

RECURSIVE TimeoutCalls(_, _, _)
\* The calls of calculate_timeout in _generate_all_tasks from suite i on.
TimeoutCalls(suites_, use_default, i) ==
    IF i > Len(suites_) THEN <<>>
    ELSE SuiteTimeoutCalls(suites_[i], use_default)
            \o TimeoutCalls(suites_, use_default, i + 1)

\* GenerateSubSuites.run. evg_api.task_by_id may raise in
\* should_tasks_be_generated (line 434), which nothing catches: run is left
\* with nothing returned by should_tasks_be_generated and nothing calculated.
\* Otherwise run returns at once when should_tasks_be_generated says False,
\* and else calls calculate_suites, which may raise an HTTPError again. The
\* Suite objects made move Suite._current_index. Then run renders the files
\* and the Evergreen configuration: calculate_timeout is called for the
\* suites with runtime information, and an exception may leave run before the
\* first of these calls or after any of them. At last run calls
\* write_file_dict, which may raise.
Run ==
    /\ pc = "run"
    /\ \/ /\ pc' = "raised"
          /\ UNCHANGED <<generate, calculated, written, suitesVars, timeoutVars>>
       \/ /\ ~should_tasks_be_generated(task)
          /\ generate' = PyBool(FALSE)
          /\ pc' = "returned"
          /\ UNCHANGED <<calculated, written, suitesVars, timeoutVars>>
       \/ /\ should_tasks_be_generated(task)
          /\ generate' = PyBool(TRUE)
          /\ calculated' = Append(calculated, task.execution)
          /\ \E stats \in EvgStats, options \in RunConfigs :
                IF stats.kind = "HTTPError"
                THEN /\ pc' = "raised"
                     /\ UNCHANGED <<written, suitesVars, timeoutVars>>
                ELSE
                LET target_execution_time_secs == options.target_resmoke_time * 60
                    r == IF stats.kind = "fallback"
                         THEN calculate_fallback_suites(
                                  SuiteName, stats.test_list,
                                  options.fallback_num_sub_suites, current_index)
                                @@ [last_test_processed |-> last_test_processed]
                         ELSE divide_tests_into_suites(
                                  SuiteName, stats.tests_runtimes, target_execution_time_secs,
                                  options.max_sub_suites, options.max_tests_per_suite,
                                  current_index)
                    calls == TimeoutCalls(r.suites, options.use_default_timeouts, 1)
                IN  /\ suites' = r.suites
                    /\ current_index' = r.current_index
                    /\ last_test_processed' = r.last_test_processed
                    /\ IF stats.kind = "stats"
                       THEN /\ tests_runtimes' = stats.tests_runtimes
                            /\ max_time_seconds' = target_execution_time_secs
                            /\ max_suites' = options.max_sub_suites
                            /\ max_tests_per_suite' = options.max_tests_per_suite
                       ELSE UNCHANGED <<tests_runtimes, max_time_seconds, max_suites,
                                        max_tests_per_suite>>
                    /\ \E made \in 0..Len(calls) :
                          /\ IF made = 0 THEN UNCHANGED timeoutVars
                             ELSE /\ avg_runtime' = calls[made]
                                  /\ scaling_factor' = 3
                                  /\ timeout' = PyInt(calculate_timeout(calls[made], 3))
                          /\ \/ /\ pc' = "raised"
                                /\ UNCHANGED written
                             \/ /\ made = Len(calls)
                                /\ written' = Append(written, task.execution)
                                /\ pc' \in {"returned", "raised"}
    /\ UNCHANGED <<graphVars, idx, thread_dict, graph_file, cycle_nodes,
                   cycle_message, printed, file, raised, infos, log, facts, task>>

\* The execution ends. Whether it is a success is what Evergreen says of it,
\* as task.get_execution(i).is_success() gives it to later executions.
TaskEnds ==
    /\ pc \in {"returned", "raised"}
    /\ \E ok \in BOOLEAN :
          task' = [task EXCEPT !.is_success[task.execution + 1] = ok]
    /\ pc' = "ended"
    /\ UNCHANGED <<graphVars, idx, thread_dict, graph_file, cycle_nodes,
                   cycle_message, printed, file, raised, infos, log, facts,
                   suitesVars, generate, calculated, written, timeoutVars>>

\* The task is restarted: a new execution begins, in a new process, in
\* which Suite._current_index is 0 again and nothing has been called.
Restart ==
    /\ pc = "ended"
    /\ task.execution < MaxRestarts
    /\ task' = [execution |-> task.execution + 1,
                is_success |-> Append(task.is_success, FALSE)]
    /\ pc' = "run"
    /\ generate' = None
    /\ tests_runtimes' = <<>> /\ max_time_seconds' = 0 /\ max_suites' = None
    /\ max_tests_per_suite' = None /\ current_index' = 0
    /\ last_test_processed' = 0 /\ suites' = <<>>
    /\ avg_runtime' = 0 /\ scaling_factor' = 1 /\ timeout' = None
    /\ UNCHANGED <<graphVars, idx, thread_dict, graph_file, cycle_nodes,
                   cycle_message, printed, file, raised, infos, log, facts,
                   calculated, written>>

NextRun ==
    \/ Run
    \/ TaskEnds
    \/ Restart

SpecRun == InitRun /\ [][NextRun]_vars

-----------------------------------------------------------------------------
(* Graph theory, for the statements below; none of it is used by the model *)
(* of the code.                                                            *)

\* The edges of g, as pairs of keys.
Edges(g) ==
    UNION { {<<g[i].key, g[i].next_nodes[j]>> : j \in 1..Len(g[i].next_nodes)} :
            i \in 1..Len(g) }

HasEdge(g, a, b) == <<a, b>> \in Edges(g)

Successors(g, S) == {e[2] : e \in {d \in Edges(g) : d[1] \in S}}

RECURSIVE Closure(_, _)
Closure(g, S) ==
    LET T == S \cup Successors(g, S) IN IF T = S THEN S ELSE Closure(g, T)

\* The keys reached from a by a path of at least one edge.
ReachableFrom(g, a) == Closure(g, Successors(g, {a}))

\* a lies on a directed cycle (a self-loop included).
OnCycle(g, a) == a \in ReachableFrom(g, a)

HasCycle(g) == \E a \in Keys(g) : OnCycle(g, a)

HasOutgoing(g, a) == \E e \in Edges(g) : e[1] = a

HasIncoming(g, a) == \E e \in Edges(g) : e[2] = a

\* No outgoing list of g holds a key twice.
NoDuplicateEdges(g) ==
    \A i \in 1..Len(g) : \A j, k \in 1..Len(g[i].next_nodes) :
        g[i].next_nodes[j] = g[i].next_nodes[k] => j = k

\* The entries of g whose node has the description d.
EntriesDescribed(g, d) == {i \in 1..Len(g) : str(g[i].node) = d}

\* d names exactly one node of g; KeyDescribed is its key.
DescribesOne(g, d) == Cardinality(EntriesDescribed(g, d)) = 1

KeyDescribed(g, d) == g[CHOOSE i \in EntriesDescribed(g, d) : TRUE].key

\* ds is a list of descriptions of distinct nodes of g that form a directed
\* cycle of g in the order listed, the last one having an edge to the first.
IsCycleOf(g, ds) ==
    /\ Len(ds) > 0
    /\ \A i \in 1..Len(ds) : DescribesOne(g, ds[i])
    /\ \A i, j \in 1..Len(ds) : ds[i] = ds[j] => i = j
    /\ \A i \in 1..Len(ds) :
          HasEdge(g, KeyDescribed(g, ds[i]), KeyDescribed(g, ds[(i % Len(ds)) + 1]))

\* s holds sub as a substring.
Contains(s, sub) ==
    \E i \in 1..(Len(s) - Len(sub) + 1) : SubSeq(s, i, i + Len(sub) - 1) = sub

-----------------------------------------------------------------------------
(* Claims about the Graph class, checked under SpecGraph.                  *)

\* C1: whenever detect_cycle is called on a graph that holds a directed cycle
\* (a self-loop included), it returns a non-empty list of node descriptions,
\* no node twice, each node with an edge to the next and the last with an edge
\* to the first; so every listed node lies on a cycle and no node of an
\* acyclic prefix is listed.
C1_DetectCycleReturnsCycle ==
    (call.op = "detect_cycle" /\ HasCycle(nodes)) =>
        /\ ~IsNone(ret)
        /\ IsCycleOf(nodes, ret.list)
        /\ \A i \in 1..Len(ret.list) : OnCycle(nodes, KeyDescribed(nodes, ret.list[i]))

\* Witness of C1: detect_cycle returned a cycle of two or more nodes that
\* leaves out the first root, a node with an outgoing edge (an acyclic prefix).
C1_Witness ==
    /\ call.op = "detect_cycle"
    /\ ~IsNone(ret)
    /\ Len(ret.list) >= 2
    /\ Len(nodes[1].next_nodes) > 0
    /\ ~InList(str(nodes[1].node), ret.list)

\* C2: whenever detect_cycle is called on a graph without a directed cycle
\* (the empty graph and converging paths included), it returns None.
C2_AcyclicReturnsNone ==
    (call.op = "detect_cycle" /\ ~HasCycle(nodes)) => IsNone(ret)

\* Witness of C2: detect_cycle returned None on an acyclic graph in which one
\* node is the target of edges from two different nodes.
C2_Witness ==
    /\ call.op = "detect_cycle"
    /\ IsNone(ret)
    /\ ~HasCycle(nodes)
    /\ \E e1 \in Edges(nodes), e2 \in Edges(nodes) : e1[2] = e2[2] /\ e1[1] # e2[1]
    /\ EdgeCount(nodes) >= 3

\* detect_cycle can be called in every state and leaves the graph as it is
\* (C14), so every reachable graph is the graph of a state whose last call is
\* detect_cycle: what is said of the calls that could follow in any graph is
\* evaluated in those states, and in the states that a repeated add_node or
\* add_edge has led to.
EachGraphOnce ==
    \/ call.op = "detect_cycle"
    \/ call.op \in {"add_node", "add_edge"} /\ call.again

\* C3: add_edge is idempotent. From every reachable graph and for every pair of
\* node objects, a second add_edge with the same pair changes nothing, the
\* first one lengthens the outgoing list of from by at most one entry, and no
\* outgoing list of a reachable graph holds a key twice.
C3_AddEdgeIdempotent ==
    /\ NoDuplicateEdges(nodes)
    /\ EachGraphOnce => \A f \in GraphNodes, t \in GraphNodes :
          LET once == add_edge(nodes, f, t)
              OutLen(g) == IF HasKey(g, key(f)) THEN Len(Entry(g, key(f)).next_nodes) ELSE 0
          IN  /\ add_edge(once, f, t) = once
              /\ add_edge(add_edge(once, f, t), f, t) = once
              /\ OutLen(once) <= OutLen(nodes) + 1

\* Witness of C3: add_edge was called with a pair whose edge was in the graph
\* already, in a graph of two or more edges.
C3_Witness ==
    /\ call.op = "add_edge"
    /\ call.again
    /\ EdgeCount(nodes) >= 2

\* C4: after remove_nodes_without_edge every node left has an outgoing or an
\* incoming edge, every node removed had neither, and nothing else changed
\* hands; a node next to a two-node cycle that has no edge is removed and its
\* key is absent from the to_graph output, while both nodes of the cycle stay.
C4_PruningCorrect ==
    call.op = "remove_nodes_without_edge" =>
        /\ Keys(nodes) \subseteq Keys(before)
        /\ \A k \in Keys(nodes) : HasOutgoing(nodes, k) \/ HasIncoming(nodes, k)
        /\ \A k \in Keys(before) \ Keys(nodes) :
              ~HasOutgoing(before, k) /\ ~HasIncoming(before, k)
        /\ \A a \in Keys(before), b \in Keys(before), c \in Keys(before) :
              ( /\ a # b
                /\ HasEdge(before, a, b) /\ HasEdge(before, b, a)
                /\ ~HasOutgoing(before, c) /\ ~HasIncoming(before, c) )
              => /\ a \in Keys(nodes) /\ b \in Keys(nodes) /\ c \notin Keys(nodes)
                 /\ ~Contains(to_graph(nodes, None, None), c)
                 /\ Contains(to_graph(nodes, None, None), a)
                 /\ Contains(to_graph(nodes, None, None), b)

\* Witness of C4: remove_nodes_without_edge removed the one node without an
\* edge and kept the two nodes of a cycle.
C4_Witness ==
    /\ call.op = "remove_nodes_without_edge"
    /\ Len(before) = 3
    /\ Len(nodes) = 2
    /\ HasEdge(nodes, nodes[1].key, nodes[2].key)
    /\ HasEdge(nodes, nodes[2].key, nodes[1].key)

-----------------------------------------------------------------------------
(* Claims about a pass of mongodb_waitsfor_graph, checked under Spec.      *)

StartsWith(s, prefix) == Len(s) >= Len(prefix) /\ SubSeq(s, 1, Len(prefix)) = prefix

\* The pass is over and no exception left it.
PassReturned == pc = "done" /\ IsNone(raised)

\* The texts the pass has written, on the terminal or into graph_file, that
\* are a rendering of to_graph: they start with the legend.
Renderings ==
    {printed[i] : i \in {j \in 1..Len(printed) : StartsWith(printed[j], "# Legend:")}}
    \cup (IF ~IsNone(file) /\ StartsWith(file.str, "# Legend:") THEN {file.str} ELSE {})

\* The three ways a pass may end.
EndsWithReport == Renderings # {}
EndsWithEmptyNotice == InList(EmptyGraphNotice, printed)
EndsWithAbortNotice == InList(PassAbortedNotice, printed)

Count(b) == IF b THEN 1 ELSE 0

\* Thread i is in thread_dict: get_threads_info has enumerated it.
Enumerated(i) == DictHas(thread_dict, LwpOf(i))

\* The fact logged for thread i names a mutex owner that is not enumerated.
UnknownMutexHolder(i) ==
    /\ log[i].kind = "inspected"
    /\ log[i].mutex.kind = "wait"
    /\ ~DictHas(thread_dict, log[i].mutex.owner)

\* The fact logged for thread i names, as request n of the granted list, a
\* lock holder that is not enumerated, and find_lock_manager_holders gets
\* that far.
UnknownLockHolder(i, n) ==
    /\ log[i].kind = "inspected"
    /\ log[i].mutex.kind # "gdb.error"
    /\ log[i].lockmgr.kind = "wait"
    /\ n \in 1..Len(log[i].lockmgr.granted)
    /\ IsNone(find_thread(thread_dict, log[i].lockmgr.granted[n]))
    /\ \A m \in 1..(n - 1) : ~IsNone(find_thread(thread_dict, log[i].lockmgr.granted[m]))

\* Node k of the graph is a placeholder for the raw identifier id: a thread
\* node made from id that is none of the enumerated threads.
IsPlaceholder(k, id) ==
    /\ HasKey(nodes, k)
    /\ Entry(nodes, k).node.cls = "Thread"
    /\ Entry(nodes, k).node.thread_id = id
    /\ \A j \in 1..Len(thread_dict) : thread_dict[j].value # Entry(nodes, k).node

\* C5: a pass that is over has ended in exactly one of the three ways, the
\* full report, the empty-graph notice or the pass-aborted notice, and by no
\* uncaught exception.
C5_PassEndsWithOneOutcome ==
    pc = "done" =>
        /\ IsNone(raised)
        /\ Count(EndsWithReport) + Count(EndsWithEmptyNotice)
              + Count(EndsWithAbortNotice) = 1

\* The turn of thread i in get_locks has ended by no exception.
TurnReturned(i) == i = Len(log) => IsNone(raised)

\* C6: for every wait fact met so far whose waiter is enumerated and whose
\* holder is not, be it a std::mutex or a lock-manager resource, no exception
\* has left the turn of the waiting thread, and the graph has the edge from
\* the waiter to the resource and an edge from the resource to a placeholder
\* thread node for the raw holder identifier.
C6_UnknownHolderGetsPlaceholder ==
    pc \in {"get_locks", "remove_nodes_without_edge", "done"} =>
        \A i \in 1..Len(log) :
            Enumerated(i) =>
                LET waiter == key(DictGet(thread_dict, LwpOf(i))) IN
                /\ UnknownMutexHolder(i) =>
                      /\ TurnReturned(i)
                      /\ HasEdge(nodes, waiter, key(Lock(log[i].mutex.addr, "Mutex")))
                      /\ \E k \in Keys(nodes) :
                            /\ IsPlaceholder(k, log[i].mutex.owner)
                            /\ HasEdge(nodes, key(Lock(log[i].mutex.addr, "Mutex")), k)
                /\ \A n \in 1..MaxGranted :
                      UnknownLockHolder(i, n) =>
                          /\ TurnReturned(i)
                          /\ HasEdge(nodes, waiter,
                                     key(Lock(log[i].lockmgr.addr, "MongoDB lock")))
                          /\ \E k \in Keys(nodes) :
                                /\ IsPlaceholder(k, log[i].lockmgr.granted[n])
                                /\ HasEdge(nodes,
                                           key(Lock(log[i].lockmgr.addr, "MongoDB lock")), k)

\* get_locks caught a gdb.error in the turn of thread i: the introspection of
\* that thread failed.
GdbErrorIn(i) ==
    \/ log[i].kind = "gdb.error"
    \/ /\ log[i].kind = "inspected"
       /\ \/ log[i].mutex.kind \in {"gdb.error", "block_gdb.error"}
          \/ /\ NoFrame(log[i].mutex) \/ Enumerated(i)
             /\ log[i].lockmgr.kind \in {"block_gdb.error", "select_gdb.error"}
          \/ /\ Enumerated(i)
             /\ log[i].lockmgr.kind = "gdb.error"
          \/ /\ Enumerated(i)
             /\ log[i].lockmgr.kind = "wait"
             /\ log[i].lockmgr.ends = "gdb.error"
             /\ \A n \in 1..Len(log[i].lockmgr.granted) :
                   ~IsNone(find_thread(thread_dict, log[i].lockmgr.granted[n]))

\* The edges the facts of thread i stand for: waiter -> resource and
\* resource -> holder for the mutex it waits on and for every holder of the
\* lock-manager resource it waits on (an unknown mutex owner by its LWP id).
ContributedEdges(i) ==
    IF log[i].kind # "inspected" \/ ~Enumerated(i) THEN {}
    ELSE
    LET waiter == key(DictGet(thread_dict, LwpOf(i)))
        m == log[i].mutex
        l == log[i].lockmgr
        mutex_key == key(Lock(m.addr, "Mutex"))
        owner_key ==
            IF DictHas(thread_dict, m.owner) THEN key(DictGet(thread_dict, m.owner))
            ELSE key(Thread(m.owner, m.owner, "\"[unknown]\""))
        lock_key == key(Lock(l.addr, "MongoDB lock"))
        known == {n \in 1..Len(l.granted) : ~IsNone(find_thread(thread_dict, l.granted[n]))}
    IN  (IF m.kind = "wait" THEN {<<waiter, mutex_key>>, <<mutex_key, owner_key>>} ELSE {})
        \cup
        (IF l.kind = "wait" /\ Len(l.granted) > 0 THEN {<<waiter, lock_key>>} ELSE {})
        \cup
        (IF l.kind = "wait"
         THEN {<<lock_key, key(find_thread(thread_dict, l.granted[n]))>> : n \in known}
         ELSE {})

\* C7: when a pass is over in which the introspection of some thread failed
\* during get_locks, every thread has had its turn in get_locks, the graph has
\* every edge of the facts of the threads that did not fail, and the pass has
\* ended with its report (or the empty-graph notice), by no exception.
C7_FailedThreadIsSkipped ==
    (pc = "done" /\ \E i \in 1..Len(log) : GdbErrorIn(i)) =>
        /\ Len(log) = Cardinality(InferiorThreads)
        /\ IsNone(raised)
        /\ \A j \in 1..Len(log) : ~GdbErrorIn(j) => ContributedEdges(j) \subseteq Edges(nodes)
        /\ EndsWithReport \/ EndsWithEmptyNotice

\* The lines of a text: text.split("\n"), each newline found in one scan.
Lines(text) ==
    LET hits == {i \in 1..Len(text) : SubSeq(text, i, i) = "\n"}
        n == Cardinality(hits)
        Nth(k) == CHOOSE i \in hits : Cardinality({j \in hits : j < i}) = k - 1
        First(k) == IF k = 1 THEN 1 ELSE Nth(k - 1) + 1
        Last(k) == IF k = n + 1 THEN Len(text) ELSE Nth(k) - 1
    IN  [k \in 1..(n + 1) |-> SubSeq(text, First(k), Last(k))]

\* The lines of a rendering that state a verdict.
VerdictLines(text) ==
    LET lines == Lines(text)
    IN  SelectSeq(lines, LAMBDA ln :
            \/ StartsWith(ln, "# Cycle detected in the graph nodes ")
            \/ StartsWith(ln, "# No cycle detected in the graph"))

\* The lines printed, one per print call, that state a verdict.
PrintedVerdicts ==
    SelectSeq(printed, LAMBDA ln :
        \/ StartsWith(ln, "Cycle detected in the graph nodes ")
        \/ StartsWith(ln, "No cycle detected in the graph"))

\* C8: a pass that returns with a graph that is not empty has produced one
\* rendering with exactly one verdict line in it: "Cycle detected in the graph
\* nodes [...]" if and only if the pruned graph has a directed cycle, listing
\* the descriptions of the nodes of one cycle in path order, and otherwise "No
\* cycle detected in the graph"; with a graph_file the same verdict, and no
\* other, is printed.
C8_ExactlyOneVerdict ==
    (PassReturned /\ ~(Len(nodes) = 0)) =>
        LET cyclic == HasCycle(nodes)
            verdict ==
                IF ~IsNone(cycle_nodes)
                THEN "Cycle detected in the graph nodes " \o ListStr(cycle_nodes.list)
                ELSE "No cycle detected in the graph"
        IN  /\ cyclic <=> ~IsNone(cycle_nodes)
            /\ cyclic => IsCycleOf(nodes, cycle_nodes.list)
            /\ Cardinality(Renderings) = 1
            /\ \A text \in Renderings : VerdictLines(text) = Append(<<>>, "# " \o verdict)
            /\ PrintedVerdicts = IF TruthyStr(graph_file) THEN Append(<<>>, verdict) ELSE <<>>

\* Witness of C8: a pass with a graph_file has reported a cycle of four nodes.
C8_Witness ==
    /\ PassReturned
    /\ TruthyStr(graph_file)
    /\ ~IsNone(cycle_nodes)
    /\ Len(cycle_nodes.list) = 4
    /\ PrintedVerdicts # <<>>

\* The label statement of node k in a rendering.
LabelLines(text, k) ==
    SelectSeq(Lines(text), LAMBDA ln : StartsWith(ln, "    \"" \o k \o "\" [label="))

\* C9: in the rendering of a pass that reports a cycle, the label statement
\* of a node has color = red if and only if the node is on the reported cycle.
C9_CycleNodesHighlighted ==
    (PassReturned /\ ~IsNone(cycle_nodes)) =>
        \A text \in Renderings : \A i \in 1..Len(nodes) :
            /\ Len(LabelLines(text, nodes[i].key)) = 1
            /\ Contains(LabelLines(text, nodes[i].key)[1], "color = red")
                  <=> InList(str(nodes[i].node), cycle_nodes.list)

\* A walk of find_frame in the turn of thread i ended by a gdb.error of
\* frame.older(), which find_frame prints.
FindFrameErrorIn(i) ==
    /\ log[i].kind = "inspected"
    /\ \/ log[i].mutex.kind = "older_gdb.error"
       \/ log[i].lockmgr.kind = "older_gdb.error"

\* No thread was found waiting: get_locks met no mutex and no lock-manager
\* wait in any thread.
NoWaitFacts ==
    \A i \in 1..Len(log) :
        log[i].kind = "inspected" =>
            log[i].mutex.kind # "wait" /\ log[i].lockmgr.kind # "wait"

\* C10: when get_locks has gone through all threads and met no wait fact, the
\* graph is empty before and after pruning and the pass has printed the
\* empty-graph notice, once and last: no cycle detection has run (cycle_nodes
\* and cycle_message are unset), no rendering and no verdict is printed, and
\* graph_file is not written even when given; with no diagnostic of a skipped
\* thread or frame either, the notice is all the pass prints.
C10_EmptyGraphNotice ==
    (pc = "done" /\ IsNone(raised) /\ Len(log) = Cardinality(InferiorThreads)
        /\ NoWaitFacts) =>
        /\ before = EmptyGraph
        /\ is_empty(nodes)
        /\ Len(printed) > 0
        /\ printed[Len(printed)] = EmptyGraphNotice
        /\ Cardinality({i \in 1..Len(printed) : printed[i] = EmptyGraphNotice}) = 1
        /\ IsNone(cycle_nodes)
        /\ IsNone(cycle_message)
        /\ Renderings = {}
        /\ PrintedVerdicts = <<>>
        /\ file \in PriorContents(graph_file)
        /\ ( (\A i \in 1..Len(log) :
                  log[i].kind # "gdb.error" /\ ~GdbErrorIn(i) /\ ~FindFrameErrorIn(i))
             /\ (\A i \in 1..Len(infos) : infos[i].kind \in {"invalid", "found"}) )
           => printed = <<EmptyGraphNotice>>

\* Witness of C10: a pass with a graph_file over two enumerated threads, none
\* of them waiting, has ended with the notice.
C10_Witness ==
    /\ pc = "done"
    /\ Len(log) = Cardinality(InferiorThreads)
    /\ NoWaitFacts
    /\ \A i \in 1..Len(log) : log[i].kind = "inspected"
    /\ Len(thread_dict) = 2
    /\ TruthyStr(graph_file)
    /\ EndsWithEmptyNotice

-----------------------------------------------------------------------------
(* Further claims about a pass, checked under Spec.                         *)

\* The keys that the facts of thread i make get_locks refer to, when its turn
\* ends by no exception: the waiter, the mutex and its owner, the lock head and
\* the holders of its granted list.
KeysReferred(i) ==
    IF log[i].kind # "inspected" \/ ~Enumerated(i) THEN {}
    ELSE
    LET waiter == key(DictGet(thread_dict, LwpOf(i)))
        m == log[i].mutex
        l == log[i].lockmgr
        owner ==
            IF DictHas(thread_dict, m.owner) THEN DictGet(thread_dict, m.owner)
            ELSE Thread(m.owner, m.owner, "\"[unknown]\"")
    IN  (IF m.kind = "wait"
         THEN {waiter, key(Lock(m.addr, "Mutex")), key(owner)} ELSE {})
        \cup
        (IF m.kind # "gdb.error" /\ l.kind = "wait" /\ Len(l.granted) > 0
         THEN {waiter, key(Lock(l.addr, "MongoDB lock"))}
                \cup {key(Thread(l.granted[n], 0, "")) : n \in 1..Len(l.granted)}
         ELSE {})

\* C11: while get_locks builds the graph, a node is its key: no two entries
\* have the same key, no two thread nodes the same thread id and no two lock
\* nodes the same address, every entry is filed under the key of its node, and
\* as long as no exception has left the pass the number of nodes is the number
\* of distinct keys the facts met so far refer to, however often a thread or a
\* lock is referred to.
C11_NodeIdentityIsKey ==
    pc \in {"get_locks", "remove_nodes_without_edge"} \/ (pc = "done" /\ ~IsNone(raised)) =>
        /\ \A i, j \in 1..Len(nodes) :
              ( \/ nodes[i].key = nodes[j].key
                \/ /\ nodes[i].node.cls = "Thread" /\ nodes[j].node.cls = "Thread"
                   /\ nodes[i].node.thread_id = nodes[j].node.thread_id
                \/ /\ nodes[i].node.cls = "Lock" /\ nodes[j].node.cls = "Lock"
                   /\ nodes[i].node.addr = nodes[j].node.addr )
              => i = j
        /\ \A i \in 1..Len(nodes) : nodes[i].key = key(nodes[i].node)
        /\ IsNone(raised) =>
              /\ Keys(nodes) = UNION {KeysReferred(i) : i \in 1..Len(log)}
              /\ Len(nodes) = Cardinality(UNION {KeysReferred(i) : i \in 1..Len(log)})

\* Witness of C11: thread 2 is referred to three times, as the owner of the
\* mutex thread 1 waits on (by its LWP id), as a waiter, and as the holder of
\* the lock it waits on (by its thread id), and the graph has four nodes.
C11_Witness ==
    /\ pc = "remove_nodes_without_edge"
    /\ Len(thread_dict) = 2
    /\ log[1].kind = "inspected" /\ log[1].mutex.kind = "wait"
    /\ log[1].mutex.owner = LwpOf(2) /\ log[1].lockmgr.kind = "no_frame"
    /\ log[2].kind = "inspected" /\ log[2].mutex.kind = "no_frame"
    /\ log[2].lockmgr.kind = "wait" /\ log[2].lockmgr.granted = <<TidOf(2)>>
    /\ Len(nodes) = 4

-----------------------------------------------------------------------------
(* Claims about a ring of waiting threads, checked under SpecRing.          *)

\* The thread that holds what thread i of the ring waits on.
RingHolder(i) ==
    CHOOSE j \in 1..Len(facts) :
        IF facts[i].mutex.kind = "wait"
        THEN facts[i].mutex.owner = LwpOf(j)
        ELSE facts[i].lockmgr.granted = <<TidOf(j)>>

\* The lock node that thread i of the ring waits on.
RingLock(i) ==
    IF facts[i].mutex.kind = "wait"
    THEN Lock(facts[i].mutex.addr, "Mutex")
    ELSE Lock(facts[i].lockmgr.addr, "MongoDB lock")

RECURSIVE WaitOrder(_, _)
\* The descriptions of k threads and their locks in wait order from thread i:
\* the thread, the lock it waits on, the holder of that lock, and so on.
WaitOrder(i, k) ==
    IF k = 0 THEN <<>>
    ELSE <<str(DictGet(thread_dict, LwpOf(i))), str(RingLock(i))>>
            \o WaitOrder(RingHolder(i), k - 1)

\* C12: when get_locks has put in the edges of a ring of n threads, thread by
\* thread, the graph has 2n nodes and 2n edges, and detect_cycle returns the
\* cycle of 2n elements that lists every thread and every lock once, in wait
\* order from thread 1: T1, L1, the holder of L1, its lock, and so on.
C12_RingIsDetected ==
    LET n == Len(facts) IN
    /\ pc \in {"remove_nodes_without_edge", "is_empty", "detect_cycle", "output",
              "done"} =>
          /\ IsNone(raised)
          /\ Len(nodes) = 2 * n
          /\ EdgeCount(nodes) = 2 * n
    /\ pc \in {"output", "done"} =>
          /\ ~IsNone(cycle_nodes)
          /\ Len(cycle_nodes.list) = 2 * n
          /\ cycle_nodes.list = WaitOrder(1, n)
          /\ \A i \in 1..n :
                /\ Cardinality({j \in 1..(2 * n) :
                      cycle_nodes.list[j] = str(DictGet(thread_dict, LwpOf(i)))}) = 1
                /\ Cardinality({j \in 1..(2 * n) :
                      cycle_nodes.list[j] = str(RingLock(i))}) = 1

\* Witness of C12: the ring T1 -> L1 -> T2 -> L2 -> T3 -> L3 -> T1 has been
\* reported as a cycle of six elements.
C12_Witness ==
    /\ pc = "done"
    /\ Len(facts) = 3
    /\ \A i \in 1..3 : RingHolder(i) = (i % 3) + 1
    /\ ~IsNone(cycle_nodes)
    /\ Len(cycle_nodes.list) = 6
    /\ cycle_nodes.list[3] = str(DictGet(thread_dict, LwpOf(2)))

-----------------------------------------------------------------------------
(* More claims about a pass, checked under Spec.                            *)

\* Thread i met no wait in get_locks.
WaitsOnNothing(i) ==
    log[i].kind = "inspected" =>
        NoFrame(log[i].mutex) /\ NoFrame(log[i].lockmgr)

\* Thread i is enumerated and waits on one std::mutex whose owner is not
\* enumerated, and on nothing else.
WaitsOnOrphanMutex(i) ==
    /\ Enumerated(i)
    /\ UnknownMutexHolder(i)
    /\ NoFrame(log[i].lockmgr)

\* Thread i is enumerated and waits on one lock-manager lock whose only holder
\* is not enumerated, and on nothing else.
WaitsOnOrphanLock(i) ==
    /\ Enumerated(i)
    /\ log[i].kind = "inspected"
    /\ NoFrame(log[i].mutex)
    /\ log[i].lockmgr.kind = "wait"
    /\ log[i].lockmgr.ends = "end"
    /\ Len(log[i].lockmgr.granted) = 1
    /\ IsNone(find_thread(thread_dict, log[i].lockmgr.granted[1]))

\* What C13 asks of a finished pass in which thread i is the one waiter, on
\* the resource node res held by the thread with the raw identifier id.
OrphanIsKept(i, res, id) ==
    LET waiter == key(DictGet(thread_dict, LwpOf(i))) IN
    /\ IsNone(raised)
    /\ \E k \in Keys(nodes) :
          /\ IsPlaceholder(k, id)
          /\ Keys(nodes) = {waiter, key(res), k}
          /\ Edges(nodes) = {<<waiter, key(res)>>, <<key(res), k>>}
    /\ before = nodes
    /\ IsNone(cycle_nodes)
    /\ cycle_message = PyStr(NoCycleMessage)
    /\ EndsWithReport

\* C13: when a pass is over in which exactly one thread waits, on a resource
\* (a std::mutex or a lock-manager lock) whose holder is not enumerated, the
\* graph holds the waiter, the resource and a placeholder node for the holder,
\* joined by the two edges; pruning has removed none of them, and the report
\* says that there is no cycle.
C13_OrphanResourceIsKept ==
    (pc = "done" /\ Len(log) = Cardinality(InferiorThreads)) =>
        \A i \in 1..Len(log) :
            (\A j \in 1..Len(log) : j # i => WaitsOnNothing(j)) =>
                /\ WaitsOnOrphanMutex(i) =>
                      OrphanIsKept(i, Lock(log[i].mutex.addr, "Mutex"), log[i].mutex.owner)
                /\ WaitsOnOrphanLock(i) =>
                      OrphanIsKept(i, Lock(log[i].lockmgr.addr, "MongoDB lock"),
                                   log[i].lockmgr.granted[1])

-----------------------------------------------------------------------------
(* More claims about the Graph class, checked under SpecGraph.              *)

\* The calls i and j recorded in log are calls of the same method with the
\* same arguments.
SameCall(i, j) ==
    /\ log[i].op = log[j].op
    /\ log[i].nodes = log[j].nodes
    /\ log[i].message = log[j].message

\* C14: a call of detect_cycle or of to_graph leaves self.nodes as it found
\* it: the same keys in the same order, the same node objects and the same
\* outgoing lists. And of the calls made on one graph, with nothing but
\* detect_cycle and to_graph called in between, any two calls of to_graph with
\* the same nodes and message arguments return the same text, and any two
\* calls of detect_cycle return the same value.
C14_DetectAndRenderReadOnly ==
    /\ \A i \in 1..Len(log) : log[i].left = log[i].found
    /\ \A i \in 1..Len(log) : \A j \in 1..Len(log) :
          SameCall(i, j) => log[i].ret = log[j].ret

\* Witness of C14: on a graph with a cycle to_graph was called with a
\* highlight list and a header, then detect_cycle, which found the cycle, then
\* to_graph again with the same arguments.
C14_Witness ==
    /\ Len(log) = 3
    /\ log[1].op = "to_graph" /\ Truthy(log[1].nodes) /\ ~IsNone(log[1].message)
    /\ log[2].op = "detect_cycle" /\ Truthy(log[2].ret)
    /\ SameCall(1, 3)
    /\ HasCycle(nodes)
    /\ EdgeCount(nodes) >= 3

\* A destination file is named: graph_file is a string that is not empty.
DestinationSupplied == ~IsNone(graph_file) /\ graph_file.str # ""

\* The verdict of the pass, as the report words it.
Verdict ==
    IF ~IsNone(cycle_nodes)
    THEN "Cycle detected in the graph nodes " \o ListStr(cycle_nodes.list)
    ELSE "No cycle detected in the graph"

\* text is a rendering of the graph of the pass: the three lines of the
\* legend, the verdict line, the digraph with one line per edge and one per
\* node, and nothing more.
IsRenderedGraph(text) ==
    LET lines == Lines(text) IN
    /\ Len(lines) = 6 + EdgeCount(nodes) + Len(nodes)
    /\ lines[1] = "# Legend:"
    /\ StartsWith(lines[2], "#    Thread 1 -> Lock 1")
    /\ StartsWith(lines[3], "#    Lock 2 -> Thread 2")
    /\ lines[4] = "# " \o Verdict
    /\ lines[5] = "digraph \"mongod+lock-status\" {"
    /\ \A k \in 6..(Len(lines) - 1) : StartsWith(lines[k], "    \"")
    /\ lines[Len(lines)] = "}"

\* A line that get_threads_info, get_locks or find_frame prints about a
\* thread, a frame or a mutex while the graph is built.
IsDiagnostic(ln) ==
    \/ StartsWith(ln, "Ignoring GDB error '")
    \/ StartsWith(ln, "Unable to retrieve thread_info for thread ")
    \/ StartsWith(ln, "Warning: Mutex at ")

\* C15 as stated: in a pass that returns with a graph that is not empty and
\* with a destination file, the file holds exactly the rendered graph and
\* the verdict is all that is displayed; without a destination the rendered
\* text is displayed and no file is written.
C15_AsStated ==
    (PassReturned /\ ~(Len(nodes) = 0)) =>
        IF DestinationSupplied
        THEN /\ ~IsNone(file) /\ IsRenderedGraph(file.str)
             /\ printed = Append(<<>>, Verdict)
        ELSE /\ Len(printed) > 0 /\ IsRenderedGraph(printed[Len(printed)])
             /\ IsNone(file)

\* C15, amended: in a pass that returns with a graph that is not empty and
\* with a destination file, the file holds exactly the rendered graph, whatever
\* it held before, and the pass displays, after the diagnostics of the threads
\* it skipped, the line "Saving digraph to <file>" and then the verdict, and
\* not the rendered text; without a destination the pass displays the rendered
\* text, last and once, and no file is written.
C15_FileOrDisplay ==
    (PassReturned /\ ~(Len(nodes) = 0)) =>
        LET n == Len(printed) IN
        IF DestinationSupplied
        THEN /\ ~IsNone(file) /\ IsRenderedGraph(file.str)
             /\ file.str = to_graph(nodes, cycle_nodes, cycle_message)
             /\ n >= 2
             /\ printed[n - 1] = "Saving digraph to " \o graph_file.str
             /\ printed[n] = Verdict
             /\ \A i \in 1..(n - 2) : IsDiagnostic(printed[i])
        ELSE /\ n >= 1
             /\ IsRenderedGraph(printed[n])
             /\ \A i \in 1..(n - 1) : IsDiagnostic(printed[i])
             /\ IsNone(file)

\* Witness of C15: a pass has written its report over a file that held
\* something else, after printing a diagnostic.
C15_Witness ==
    /\ PassReturned
    /\ DestinationSupplied
    /\ Len(printed) = 3
    /\ ~IsNone(file)
    /\ file.str # "stale\n"
    /\ Len(nodes) >= 3
    /\ \E i \in 1..Len(log) : UnknownMutexHolder(i)

\* Node objects for C16: those of GraphNodes, and for the lock a second
\* object with the same address and another resource kind.
NodeObjects == GraphNodes \cup {Lock(1, "MongoDB lock")}

\* C16: in every graph that add_node, add_edge and remove_nodes_without_edge
\* calls lead to, add_node of a node whose key is registered changes nothing,
\* and neither add_node nor add_edge changes the node object of a registered
\* key or, but for the one key add_edge may append to the outgoing list of its
\* from node, an outgoing list: the entry keeps the node registered first (the
\* real thread is not replaced by a placeholder with its key, nor the
\* placeholder by the real thread, and a lock keeps its resource kind).
C16_AddNodeFirstWins ==
    EachGraphOnce =>
    \A n \in NodeObjects :
        /\ HasKey(nodes, key(n)) => add_node(nodes, n) = nodes
        /\ add_node(add_node(nodes, n), n) = add_node(nodes, n)
        /\ \A k \in Keys(nodes) : Entry(add_node(nodes, n), k) = Entry(nodes, k)
        /\ \A t \in NodeObjects : \A k \in Keys(nodes) :
              LET g == add_edge(nodes, n, t) IN
              /\ Entry(g, k).node = Entry(nodes, k).node
              /\ k # key(n) => Entry(g, k).next_nodes = Entry(nodes, k).next_nodes
              /\ k = key(n) =>
                    Entry(g, k).next_nodes \in
                        { Entry(nodes, k).next_nodes,
                          Append(Entry(nodes, k).next_nodes, key(t)) }

\* Witness of C16: add_node was called for a key already registered, in a
\* graph where thread 1 was registered through add_edge as the real thread
\* conn1 and has an outgoing edge to the lock.
C16_Witness ==
    /\ call.op = "add_node"
    /\ call.again
    /\ HasKey(nodes, key(Thread(1, 1, "\"[unknown]\"")))
    /\ Entry(nodes, key(Thread(1, 1, "\"[unknown]\""))).node = Thread(1, 11, "conn1")
    /\ Entry(nodes, key(Thread(1, 11, "conn1"))).next_nodes = <<key(Lock(1, "Mutex"))>>
    /\ Len(nodes) = 2

\* C17: after any sequence of add_node, add_edge and remove_nodes_without_edge
\* calls every key of an outgoing list is the key of a registered node: pruning
\* has removed the target of no edge that is left, and every key that
\* depth_first_search can look up in self.nodes, a root or a key of an
\* outgoing list, is there.
C17_EdgeTargetsRegistered ==
    /\ \A i \in 1..Len(nodes) : \A j \in 1..Len(nodes[i].next_nodes) :
          HasKey(nodes, nodes[i].next_nodes[j])
    /\ call.op = "remove_nodes_without_edge" =>
          \A e \in Edges(before) : e \in Edges(nodes) /\ e[2] \in Keys(nodes)

\* Witness of C17: pruning has removed a node and kept a node that has no
\* outgoing edge and is the second target of the node that points to it.
C17_Witness ==
    /\ call.op = "remove_nodes_without_edge"
    /\ Len(nodes) < Len(before)
    /\ \E i, k \in 1..Len(nodes) :
          /\ Len(nodes[i].next_nodes) = 0
          /\ Len(nodes[k].next_nodes) = 2
          /\ nodes[k].next_nodes[2] = nodes[i].key
          /\ \A m \in 1..Len(nodes) : m # k => ~InList(nodes[i].key, nodes[m].next_nodes)

\* C18: detect_cycle returns on every graph the calls lead to, cyclic or not,
\* and has then called depth_first_search at most once for a node: the keys it
\* was called with are keys of the graph and no key is among them twice, so
\* there are no more calls than nodes; when there is no cycle it was called
\* once for every node.
C18_EachNodeSearchedOnce ==
    call.op = "detect_cycle" =>
        LET visits == detect_cycle_nodes_visited(nodes) IN
        /\ \A i, j \in 1..Len(visits) : visits[i] = visits[j] => i = j
        /\ Range(visits) \subseteq Keys(nodes)
        /\ Len(visits) <= Len(nodes)
        /\ IsNone(ret) => Range(visits) = Keys(nodes)
        /\ ~IsNone(ret) <=> HasCycle(nodes)

\* Witness of C18: detect_cycle has searched a graph of three nodes without
\* a cycle in which the first root has edges to both other nodes and one of
\* these has an edge to the other: that node is met over two paths, and both
\* are visited when the loop of detect_cycle comes to them as later roots.
C18_Witness ==
    /\ call.op = "detect_cycle"
    /\ IsNone(ret)
    /\ Len(nodes) = 3
    /\ EdgeCount(nodes) = 3
    /\ Len(nodes[1].next_nodes) = 2
    /\ detect_cycle_nodes_visited(nodes)[1] = nodes[1].key


-----------------------------------------------------------------------------
(* Statements about divide_tests_into_suites.                              *)

\* divide_tests_into_suites has returned.
Returned == pc = "return"

\* The positions of tests_runtimes.
TestPositions == 1..Len(tests_runtimes)

\* The position in tests_runtimes of the test named test_file.
PositionOf(test_file) == CHOOSE i \in TestPositions : tests_runtimes[i][1] = test_file

RECURSIVE SumRuntimes(_)
\* The sum of the runtimes that tests_runtimes gives the tests of a list.
SumRuntimes(tests) ==
    IF tests = <<>> THEN 0
    ELSE tests_runtimes[PositionOf(Head(tests))][2] + SumRuntimes(Tail(tests))

\* The call gives no limit on the number of suites: None or 0.
NoSuiteLimit == ~TruthyInt(max_suites)

NonNegativeRuntimes == \A i \in TestPositions : tests_runtimes[i][2] >= 0

\* The runtime of the test at position i alone exceeds max_time_seconds.
Oversized(i) == tests_runtimes[i][2] > max_time_seconds

\* C19: a call of divide_tests_into_suites without a max_suites limit and with
\* non-negative runtimes returns suites of which each one that holds more
\* than one test has a total runtime of at most max_time_seconds; each suite
\* holds at most max_tests_per_suite tests when that limit is given; and a
\* test whose own runtime exceeds max_time_seconds is the only test of its
\* suite.
C19_SuitesWithinLimits ==
    (Returned /\ NoSuiteLimit /\ NonNegativeRuntimes) =>
        /\ \A j \in 1..Len(suites) :
              Len(suites[j].tests) > 1 =>
                  /\ SumRuntimes(suites[j].tests) <= max_time_seconds
                  /\ suites[j].total_runtime = SumRuntimes(suites[j].tests)
        /\ TruthyInt(max_tests_per_suite) =>
              \A j \in 1..Len(suites) :
                  Len(suites[j].tests) <= max_tests_per_suite.int
        /\ \A i \in TestPositions :
              Oversized(i) =>
                  \E j \in 1..Len(suites) : suites[j].tests = <<tests_runtimes[i][1]>>

\* A call without a max_suites limit has returned a suite of several tests that
\* is as long as max_tests_per_suite allows, and a suite of one test whose
\* runtime exceeds max_time_seconds.
C19_Witness ==
    /\ Returned /\ NoSuiteLimit /\ NonNegativeRuntimes
    /\ TruthyInt(max_tests_per_suite)
    /\ \E j \in 1..Len(suites) :
          /\ Len(suites[j].tests) > 1
          /\ Len(suites[j].tests) = max_tests_per_suite.int
          /\ suites[j].total_runtime = max_time_seconds
    /\ \E i \in TestPositions : \E j \in 1..Len(suites) :
          /\ Oversized(i)
          /\ suites[j].tests = <<tests_runtimes[i][1]>>


\* The call limits the number of suites to max_suites.int >= 1.
SuiteLimitGiven == TruthyInt(max_suites) /\ max_suites.int >= 1

\* The loop was left at the test of position last_test_processed (counted
\* from 0), which found max_suites suites closed.
LimitHit == last_test_processed < Len(tests_runtimes)

\* The number of tests that round-robin dealing of the tests from position
\* last_test_processed on gives suite j of m, when it starts with suite 1.
DealtCount(j, m) ==
    LET remaining == Len(tests_runtimes) - last_test_processed IN
    IF remaining < j THEN 0 ELSE ((remaining - j) \div m) + 1

\* Those tests, in the order of the list.
Dealt(j, m) ==
    [i \in 1..DealtCount(j, m) |->
        tests_runtimes[last_test_processed + j + (i - 1) * m][1]]

\* The tests suite j held before the dealing.
Own(j, m) == SubSeq(suites[j].tests, 1, Len(suites[j].tests) - DealtCount(j, m))

RECURSIVE OwnUpTo(_, _)
\* The tests suites 1..j held before the dealing, suite after suite.
OwnUpTo(j, m) == IF j = 0 THEN <<>> ELSE OwnUpTo(j - 1, m) \o Own(j, m)

\* C20: a call of divide_tests_into_suites with max_suites = m >= 1 returns at
\* most m suites; when the m-th suite was closed with tests left, there are m
\* suites, the tests before the one that met the limit fill them in the order
\* of the list, and the tests from that one on are dealt to suites 1, 2, ...,
\* m, 1, ... in turn.
C20_AtMostMaxSuitesRoundRobin ==
    (Returned /\ SuiteLimitGiven) =>
        LET m == max_suites.int IN
        /\ Len(suites) <= m
        /\ LimitHit =>
              /\ Len(suites) = m
              /\ \A j \in 1..m :
                    /\ Len(suites[j].tests) > DealtCount(j, m)
                    /\ suites[j].tests = Own(j, m) \o Dealt(j, m)
              /\ OwnUpTo(m, m) =
                     [i \in 1..last_test_processed |-> tests_runtimes[i][1]]

\* A call with max_suites = 2 met the limit with three tests left: the first
\* suite was dealt two of them and the second suite one.
C20_Witness ==
    /\ Returned /\ SuiteLimitGiven /\ LimitHit
    /\ max_suites.int = 2
    /\ Len(tests_runtimes) - last_test_processed = 3
    /\ Len(suites) = 2
    /\ Len(suites[1].tests) = 3
    /\ Len(suites[2].tests) = 2


-----------------------------------------------------------------------------
(* Statements about GenerateSubSuites.run in a restarted task.             *)

\* An execution of the task before the current one succeeded.
EarlierSuccess == \E i \in 0..(task.execution - 1) : task.is_success[i + 1]

\* An execution of the task, the current one included, has ended a success.
SomeSuccess == \E i \in 0..task.execution : task.is_success[i + 1]

\* run has been called in the current execution and has left.
RunLeft == pc \in {"returned", "raised"}

\* C21: when should_tasks_be_generated returns, it returns False exactly
\* when an execution of the task with a lower number than the current one
\* succeeded; run then calculates no suites and writes no file in this
\* execution, nor does it when task_by_id raised and nothing was returned;
\* and from the moment an execution has succeeded, no step of the task
\* calculates suites or writes files again.
C21_NoRegenerationAfterSuccess ==
    /\ [](RunLeft =>
            /\ ~IsNone(generate) => (generate = PyBool(FALSE) <=> EarlierSuccess)
            /\ IsNone(generate) => pc = "raised"
            /\ generate # PyBool(TRUE) =>
                  /\ ~InList(task.execution, calculated)
                  /\ ~InList(task.execution, written))
    /\ [][SomeSuccess => UNCHANGED <<calculated, written>>]_vars

\* Execution 0 wrote the files and failed, execution 1 wrote them and
\* succeeded, and run has returned without writing in execution 2.
C21_Witness ==
    /\ pc = "returned"
    /\ task.execution = 2
    /\ task.is_success = <<FALSE, TRUE, FALSE>>
    /\ generate = PyBool(FALSE)
    /\ written = <<0, 1>>


-----------------------------------------------------------------------------
(* Further statements about the Graph class.                               *)

\* s is a prefix of t.
IsPrefix(s, t) == Len(s) <= Len(t) /\ SubSeq(t, 1, Len(s)) = s

\* The states in which what add_edge would do to the graph is evaluated: every
\* reachable graph is the graph of a state whose last call is detect_cycle
\* (C14), and the states that follow an add_edge that added an edge are taken
\* as well.
AddEdgeFrameStates ==
    \/ call.op = "detect_cycle"
    \/ call.op = "add_edge" /\ ~call.again

\* What add_edge(from_node, to_node) may change in g0 to give g1, and nothing
\* else: the entries of g0 stay at their positions with their node objects,
\* the outgoing lists stay as they are but for the list of from_node, which is
\* unchanged or has the key of to_node appended; the entries that follow are
\* from_node and to_node, in this order, as far as their keys were absent.
AddEdgeFrame(g0, g1, from_node, to_node) ==
    LET kf == key(from_node)
        kt == key(to_node)
        old == IF HasKey(g0, kf) THEN Entry(g0, kf).next_nodes ELSE <<>>
        absent == (IF HasKey(g0, kf) THEN <<>> ELSE <<from_node>>)
                    \o (IF HasKey(g0, kt) \/ kt = kf THEN <<>> ELSE <<to_node>>)
    IN  /\ Len(g1) = Len(g0) + Len(absent)
        /\ \A i \in 1..Len(g0) :
              /\ g1[i].key = g0[i].key
              /\ g1[i].node = g0[i].node
              /\ IsPrefix(g0[i].next_nodes, g1[i].next_nodes)
              /\ g0[i].key # kf => g1[i].next_nodes = g0[i].next_nodes
        /\ \A i \in 1..Len(absent) :
              /\ g1[Len(g0) + i].key = key(absent[i])
              /\ g1[Len(g0) + i].node = absent[i]
              /\ key(absent[i]) # kf => g1[Len(g0) + i].next_nodes = <<>>
        /\ Entry(g1, kf).next_nodes =
              IF InList(kt, old) THEN old ELSE Append(old, kt)
        /\ Edges(g1) = Edges(g0) \cup {<<kf, kt>>}

\* C22: from every reachable graph and for every pair of node objects,
\* add_edge changes nothing but what AddEdgeFrame allows: it registers the
\* absent ones of from and to after the nodes there are, appends the key of to
\* at the end of the outgoing list of from unless it is there, removes and
\* reorders nothing and leaves every other outgoing list alone.
C22_AddEdgeFrame ==
    AddEdgeFrameStates =>
        \A f \in GraphNodes, t \in GraphNodes :
            AddEdgeFrame(nodes, add_edge(nodes, f, t), f, t)

\* Witness of C22: add_edge has added a third edge, to a graph in which both of
\* its nodes were registered and the from node had an edge already.
C22_Witness ==
    /\ call.op = "add_edge" /\ ~call.again
    /\ Len(nodes) = 3
    /\ EdgeCount(nodes) = 3
    /\ Len(nodes[1].next_nodes) = 2


\* The simple directed cycles of g, each as the list of its keys that starts
\* with the one inserted first.
SimpleCycles(g) ==
    LET Pos(k) == CHOOSE i \in 1..Len(g) : g[i].key = k IN
    { c \in UNION { [1..n -> Keys(g)] : n \in 1..Len(g) } :
        /\ \A i, j \in 1..Len(c) : c[i] = c[j] => i = j
        /\ \A i \in 1..Len(c) : HasEdge(g, c[i], c[(i % Len(c)) + 1])
        /\ \A i \in 2..Len(c) : Pos(c[1]) < Pos(c[i]) }

\* A cycle of g can be reached from the node of key a.
ReachesCycle(g, a) == \E b \in {a} \cup ReachableFrom(g, a) : OnCycle(g, b)

\* The position of the node inserted first among those that reach a cycle.
FirstCyclicRoot(g) ==
    CHOOSE i \in 1..Len(g) :
        /\ ReachesCycle(g, g[i].key)
        /\ \A j \in 1..(i - 1) : ~ReachesCycle(g, g[j].key)

RECURSIVE FirstLasso(_, _, _)
\* The walk that leaves the last node of path by its outgoing edges in the
\* order of the list, from entry i on, goes on in the same way from the node
\* reached, never enters a node twice and stops at the first edge that leads
\* back into the path: the part of the path from the node entered on, or <<>>
\* when no edge leads back.
FirstLasso(g, path, i) ==
    LET next_nodes == Entry(g, path[Len(path)]).next_nodes IN
    IF i > Len(next_nodes) THEN <<>>
    ELSE IF InList(next_nodes[i], path)
         THEN SubSeq(path, IndexOf(next_nodes[i], path), Len(path))
         ELSE LET found == FirstLasso(g, Append(path, next_nodes[i]), 1) IN
              IF found # <<>> THEN found ELSE FirstLasso(g, path, i + 1)

\* C23: on a graph with several cycles, detect_cycle returns the nodes of
\* exactly one cycle: the one that the walk along the outgoing edges in
\* insertion order meets first from the node inserted first among those that
\* reach a cycle. No node that an earlier root reaches is listed.
C23_FirstCycleOfFirstCyclicRoot ==
    (call.op = "detect_cycle" /\ Cardinality(SimpleCycles(nodes)) >= 2) =>
        /\ ~IsNone(ret)
        /\ IsCycleOf(nodes, ret.list)
        /\ LET root == nodes[FirstCyclicRoot(nodes)].key
               found == [i \in 1..Len(ret.list) |-> KeyDescribed(nodes, ret.list[i])]
           IN  /\ found = FirstLasso(nodes, <<root>>, 1)
               /\ \A i \in 1..Len(found) :
                     found[i] \in {root} \cup ReachableFrom(nodes, root)
               /\ \A j \in 1..(FirstCyclicRoot(nodes) - 1) :
                     \A i \in 1..Len(found) :
                         found[i] \notin {nodes[j].key} \cup ReachableFrom(nodes, nodes[j].key)

\* Witness of C23: detect_cycle returned the cycle of two nodes of a graph of
\* three nodes and two cycles, whose first node has an edge into it and
\* reaches no cycle.
C23_Witness ==
    /\ call.op = "detect_cycle"
    /\ Len(nodes) = 3
    /\ Cardinality(SimpleCycles(nodes)) = 2
    /\ FirstCyclicRoot(nodes) = 2
    /\ HasIncoming(nodes, nodes[1].key)
    /\ ~IsNone(ret)
    /\ Len(ret.list) = 2


\* The edge statement to_graph writes for the edge from key a to key b.
EdgeStatement(a, b) == "    \"" \o a \o "\" -> \"" \o b \o "\";"

EndsWith(s, suffix) ==
    Len(s) >= Len(suffix) /\ SubSeq(s, Len(s) - Len(suffix) + 1, Len(s)) = suffix

\* A line of the digraph body is an edge statement, which ends with a
\* semicolon, or a label statement, which ends with a bracket.
IsEdgeLine(ln) == StartsWith(ln, "    \"") /\ EndsWith(ln, "\";")

IsLabelLine(ln) == StartsWith(ln, "    \"") /\ EndsWith(ln, "]")

\* The label statement ln is the one of the node of key k.
IsLabelOf(ln, k) == StartsWith(ln, "    \"" \o k \o "\" [label=\"")

\* text renders g with the highlight argument S as stated: one edge statement
\* for each edge, one label statement for each node, the edge statements
\* first, and color = red in the label statements of exactly the nodes whose
\* key is an element of S.
RenderedAsStated(g, text, S) ==
    LET lines == Lines(text)
        edgeAt == {i \in 1..Len(lines) : IsEdgeLine(lines[i])}
        labelAt == {i \in 1..Len(lines) : IsLabelLine(lines[i])}
    IN  /\ Cardinality(edgeAt) = EdgeCount(g)
        /\ \A e \in Edges(g) :
              Cardinality({i \in edgeAt : lines[i] = EdgeStatement(e[1], e[2])}) = 1
        /\ Cardinality(labelAt) = Len(g)
        /\ \A n \in 1..Len(g) :
              /\ Cardinality({i \in labelAt : IsLabelOf(lines[i], g[n].key)}) = 1
              /\ \A i \in labelAt :
                    IsLabelOf(lines[i], g[n].key) =>
                        /\ EndsWith(lines[i], "color = red]")
                              <=> (Truthy(S) /\ InList(g[n].key, S.list))
                        /\ EndsWith(lines[i], "\" ]")
                              <=> ~(Truthy(S) /\ InList(g[n].key, S.list))
        /\ \A i \in edgeAt : \A j \in labelAt : i < j

\* C24: what to_graph returns holds one edge statement per edge and one label
\* statement per node, the edge statements before the label statements, and
\* a label statement holds the highlight colour if and only if the key of its
\* node is an element of the nodes argument; with None or the empty list no
\* node is highlighted. Said of every call made with a list of keys and, in
\* the state it leads to, of calls with None and with the empty list.
C24_HighlightIffKeyInNodes ==
    (call.op = "to_graph" /\ Truthy(call.nodes) /\ IsNone(call.message)) =>
        /\ RenderedAsStated(nodes, ret.str, call.nodes)
        /\ \A S \in {None, PyList(<<>>)} :
              RenderedAsStated(nodes, to_graph(nodes, S, None), S)

\* Witness of C24: to_graph was called with a list of one key on a graph of
\* three nodes and three or more edges that holds the key, and has returned a
\* text with color = red.
C24_Witness ==
    /\ call.op = "to_graph"
    /\ call.nodes = PyList(<<key(Thread(1, 11, "conn1"))>>)
    /\ Len(nodes) = 3
    /\ EdgeCount(nodes) >= 3
    /\ HasKey(nodes, key(Thread(1, 11, "conn1")))
    /\ Contains(ret.str, "color = red")


\* The position of the entry of key k in g.
PositionIn(g, k) == CHOOSE i \in 1..Len(g) : g[i].key = k

\* C25: remove_nodes_without_edge keeps every edge, and no other; a node it
\* retains keeps its node object and its outgoing list, entry for entry; the
\* retained nodes are in the order they had; and a second call changes
\* nothing.
C25_PruningKeepsEdgesAndOrder ==
    call.op = "remove_nodes_without_edge" =>
        /\ Edges(nodes) = Edges(before)
        /\ \A i \in 1..Len(nodes) :
              /\ HasKey(before, nodes[i].key)
              /\ nodes[i] = Entry(before, nodes[i].key)
        /\ \A i, j \in 1..Len(nodes) :
              i < j => PositionIn(before, nodes[i].key) < PositionIn(before, nodes[j].key)
        /\ remove_nodes_without_edge(nodes) = nodes

\* Witness of C25: remove_nodes_without_edge took the first of three nodes out
\* and kept the other two, one of them with two outgoing edges.
C25_Witness ==
    /\ call.op = "remove_nodes_without_edge"
    /\ Len(before) = 3
    /\ Len(nodes) = 2
    /\ ~HasKey(nodes, before[1].key)
    /\ \E i \in 1..2 : Len(nodes[i].next_nodes) = 2


-----------------------------------------------------------------------------
(* Further statements about a pass of mongodb_waitsfor_graph.              *)

\* remove_nodes_without_edge has run in this pass.
Pruned ==
    \/ pc \in {"is_empty", "detect_cycle", "output"}
    \/ pc = "done" /\ IsNone(raised) /\ Len(log) = Cardinality(InferiorThreads)

\* The turn of thread i in get_locks met a wait fact that names a waiter and a
\* resource to record: a std::mutex the thread is blocked on, or a lock head
\* with a granted request, which is read when the mutex was read without a
\* gdb.error.
WaitFactToRecord(i) ==
    /\ log[i].kind = "inspected"
    /\ \/ log[i].mutex.kind = "wait"
       \/ /\ log[i].mutex.kind # "gdb.error"
          /\ log[i].lockmgr.kind = "wait"
          /\ Len(log[i].lockmgr.granted) > 0

\* C26: at every moment of a pass each node of the graph has an edge to it or
\* from it, nodes being registered by add_edge only; so when
\* remove_nodes_without_edge has run it has removed nothing, and the graph it
\* leaves is empty if and only if no turn of get_locks met a wait fact to
\* record.
C26_EveryNodeHasAnEdge ==
    /\ \A i \in 1..Len(nodes) :
          HasOutgoing(nodes, nodes[i].key) \/ HasIncoming(nodes, nodes[i].key)
    /\ Pruned =>
          /\ nodes = before
          /\ is_empty(nodes) <=> \A i \in 1..Len(log) : ~WaitFactToRecord(i)

\* Witness of C26: remove_nodes_without_edge has run on a graph of four nodes
\* in a pass in which one thread was found in the lock manager with no granted
\* request.
C26_Witness ==
    /\ Pruned
    /\ Len(before) = 4
    /\ Len(nodes) = 4
    /\ \E i \in 1..Len(log) :
          /\ log[i].kind = "inspected"
          /\ log[i].lockmgr.kind = "wait"
          /\ log[i].lockmgr.granted = <<>>

\* The node find_mutex_holder makes for an owner LWP no enumerated thread has
\* (line 257): the LWP id stands for the thread id too.
PlaceholderFor(lwpid) == Thread(lwpid, lwpid, "\"[unknown]\"")

\* C27: for every mutex wait fact met so far whose waiter is enumerated and
\* whose owner is not, the key of the placeholder made from the owner's LWP id
\* is the key of no enumerated thread, the node registered under that key is
\* the placeholder and none of the enumerated threads, and that node lies on
\* no cycle of the graph.
C27_PlaceholderNeverMerged ==
    pc \in {"get_locks", "remove_nodes_without_edge", "done"} =>
        \A i \in 1..Len(log) :
            (Enumerated(i) /\ UnknownMutexHolder(i)) =>
                LET placeholder == PlaceholderFor(log[i].mutex.owner) IN
                /\ \A j \in 1..Len(thread_dict) :
                      key(thread_dict[j].value) # key(placeholder)
                /\ HasKey(nodes, key(placeholder)) =>
                      Entry(nodes, key(placeholder)).node = placeholder
                /\ ~OnCycle(nodes, key(placeholder))

\* The description d, as Graph.detect_cycle returns it, is that of a lock.
IsLockDescription(d) == StartsWith(d, "Lock 0x")

\* C28: at every moment of a pass each edge of the graph leads from a node to
\* a registered node of the other class, thread to lock or lock to thread; a
\* thread node and a lock node made from the same number are registered under
\* different keys; and in a reported cycle every node is followed, cyclically,
\* by a node of the other class, so its length is even and at least 2.
C28_ThreadsAndLocksAlternate ==
    /\ \A i \in 1..Len(nodes) :
          /\ nodes[i].node.cls \in {"Thread", "Lock"}
          /\ \A n \in 1..Len(nodes[i].next_nodes) :
                \E j \in 1..Len(nodes) :
                    /\ nodes[j].key = nodes[i].next_nodes[n]
                    /\ nodes[j].node.cls # nodes[i].node.cls
    /\ \A i, j \in 1..Len(nodes) :
          (/\ nodes[i].node.cls = "Thread"
           /\ nodes[j].node.cls = "Lock"
           /\ nodes[i].node.thread_id = nodes[j].node.addr) =>
              nodes[i].key # nodes[j].key
    /\ ~IsNone(cycle_nodes) =>
          LET n == Len(cycle_nodes.list) IN
          /\ n >= 2
          /\ n % 2 = 0
          /\ \A i \in 1..n :
                IsLockDescription(cycle_nodes.list[i])
                    # IsLockDescription(cycle_nodes.list[(i % n) + 1])

\* Witness of C28: a pass has reported a cycle of two nodes in a graph that
\* holds a thread node and a lock node made from the same number.
C28_Witness ==
    /\ PassReturned
    /\ ~IsNone(cycle_nodes)
    /\ Len(cycle_nodes.list) = 2
    /\ \E i, j \in 1..Len(nodes) :
          /\ nodes[i].node.cls = "Thread"
          /\ nodes[j].node.cls = "Lock"
          /\ nodes[i].node.thread_id = nodes[j].node.addr
          /\ HasEdge(nodes, nodes[i].key, nodes[j].key)

RECURSIVE TestsOfSuites(_)
\* The tests of the suites 1..j of the returned list, suite after suite.
TestsOfSuites(j) == IF j = 0 THEN <<>> ELSE TestsOfSuites(j - 1) \o suites[j].tests

\* The number of places the test named test_file has in the returned suites.
Placements(test_file) ==
    LET placed == TestsOfSuites(Len(suites))
    IN  Cardinality({p \in 1..Len(placed) : placed[p] = test_file})

\* C29: a call of divide_tests_into_suites, whatever the list of tests and the
\* values of max_time_seconds, max_suites and max_tests_per_suite, returns
\* suites in which every test of the list has exactly one place and no other
\* test has any, and of which none is empty.
C29_SuitesPartitionTests ==
    Returned =>
        /\ \A i \in TestPositions : Placements(tests_runtimes[i][1]) = 1
        /\ Len(TestsOfSuites(Len(suites))) = Len(tests_runtimes)
        /\ \A j \in 1..Len(suites) :
              /\ suites[j].tests # <<>>
              /\ get_test_count(suites[j]) > 0

\* Witness of C29: a call has hit the max_suites limit of 2 with three tests
\* left and has returned two suites.
C29_Witness ==
    /\ Returned
    /\ TruthyInt(max_suites) /\ max_suites.int = 2
    /\ LimitHit
    /\ Len(tests_runtimes) - last_test_processed = 3
    /\ Len(suites) = 2
    /\ \E i \in TestPositions : tests_runtimes[i][2] < 0

-----------------------------------------------------------------------------
(* Statements about calculate_timeout.                                     *)

\* The smallest multiple of 60 that is greater than or equal to runtime.
MinuteCeiling(runtime) ==
    CHOOSE m \in runtime..(runtime + 59) : m % 60 = 0

\* C30: for every non-negative integer runtime round_to_minute returns the
\* smallest multiple of 60 greater than or equal to the runtime, so a runtime
\* of whole minutes unchanged, and a call of calculate_timeout has returned
\* max(300, that value) * scaling_factor.
C30_RoundsUpToTheMinute ==
    pc = "returned" =>
        /\ round_to_minute(avg_runtime) = MinuteCeiling(avg_runtime)
        /\ timeout = PyInt(PyMax(300, MinuteCeiling(avg_runtime)) * scaling_factor)

=============================================================================
